---- MODULE Spec2Model ----
(***************************************************************************)
(* A model of gas-spreadsheet-orm: the write-through TableModel            *)
(* (src/src/table-model.ts) over a sheet, and the QueryEngine              *)
(* (src/src/example.ts, class QueryEngine) it filters with.                *)
(*                                                                         *)
(* JavaScript values are records [t, n, s]: t is the typeof tag, n the     *)
(* number (or the epoch time of a Date, or 0/1 of a boolean) and s the     *)
(* characters of a string, each character a natural number.  A record of   *)
(* the cache is a function from the field names it owns to values; a field *)
(* it does not own reads as undefined.  The sheet is the sequence of its   *)
(* physical rows, row 1 being the header.                                  *)
(***************************************************************************)
EXTENDS Integers, Sequences, FiniteSets, TLC

VARIABLES
    schema,      \* TableModel.schema: the column definitions, in Object.entries order
    primaryKey,  \* TableModel.primaryKey
    headers,     \* TableModel.headers
    sheet,       \* the sheet's physical rows; sheet[1] is the header row
    data,        \* TableModel.data, the in-memory cache
    last,        \* the last call: its name, arguments, outcome, result, and the state before it
    qe,          \* a QueryEngine under test: its data, the where given and the result
    held,        \* what the caller holds of the last read: the array or record returned
    now,         \* the time new Date() reads; it moves on with each reading
    models,      \* the multi-table SpreadsheetClient: its schema's table names and its models
    peer         \* a second cache-only SpreadsheetClient on the same sheet: its cache

vars == <<schema, primaryKey, headers, sheet, data, last, qe, held, now, models, peer>>

\* ------------------------------------------------------------------ bounds
\* The cache holds at most MaxRows records (create is not called beyond it).
MaxRows == 3
\* new Date() is read at most MaxNow times (create is not called beyond it).
MaxNow == 4

\* ------------------------------------------------------------------ values
Undef == [t |-> "undefined", n |-> 0, s |-> <<>>]
Null == [t |-> "null", n |-> 0, s |-> <<>>]
Num(k) == [t |-> "number", n |-> k, s |-> <<>>]
Str(cs) == [t |-> "string", n |-> 0, s |-> cs]
Bool(b) == [t |-> "boolean", n |-> IF b THEN 1 ELSE 0, s |-> <<>>]
DateOf(ms) == [t |-> "date", n |-> ms, s |-> <<>>]
\* new Date(x) of an x that is no time: its time value is NaN
InvalidDate == [t |-> "date", n |-> 0, s |-> <<0>>]
\* a cell computation that threw instead of returning
Thrown == [t |-> "throw", n |-> 0, s |-> <<>>]

\* a === b.  Two Date objects are the same only when they are one object; a Date
\* handed in by a caller is never the object the cache holds.
StrictEq(a, b) == IF a.t = "date" \/ b.t = "date" THEN FALSE ELSE a = b

\* value == null, the loose test: null or undefined
IsNullish(v) == v.t \in {"null", "undefined"}

\* obj[key]
Get(obj, key) == IF key \in DOMAIN obj THEN obj[key] ELSE Undef

\* {}
EmptyRec == [f \in {} |-> Undef]

\* { ...a, ...b }
Spread(a, b) == b @@ a

\* ------------------------------------------------------------- the registry
\* What a property of the registry holds or an access gives: a TableModel (the n-th
\* one constructed), a function every object inherits, undefined, or an error thrown.
ModelOf(tableName, n) == [t |-> "TableModel", table |-> tableName, n |-> n]
Inherited(prop) == [t |-> "function", table |-> prop, n |-> 0]
NoValue == [t |-> "undefined", table |-> "", n |-> 0]
ModelNotFound(tableName) == [t |-> "throw", table |-> tableName, n |-> 0]
\* the property names an object literal inherits from Object.prototype
ObjectPrototype == {"toString", "constructor"}
\* obj[prop] of an object literal whose own properties are own
Lookup(own, prop) ==
    IF prop \in DOMAIN own THEN own[prop]
    ELSE IF prop \in ObjectPrototype THEN Inherited(prop)
    ELSE NoValue
\* prop in obj
HasProperty(own, prop) == prop \in DOMAIN own \/ prop \in ObjectPrototype
\* no second client is constructed
NoPeer == [data |-> <<>>, ran |-> "none", was |-> <<>>]
\* no SpreadsheetClient is constructed
NoModels == [tables |-> <<>>, byName |-> [x \in {} |-> NoValue], built |-> 0]

\* SpreadsheetClient.initializeModels: one new TableModel for each entry of the schema
initializeModels(tables) ==
    [tables |-> tables,
     byName |-> [name \in {tables[i] : i \in 1..Len(tables)} |->
                   ModelOf(name, CHOOSE i \in 1..Len(tables) : tables[i] = name)],
     built |-> Len(tables)]

\* SpreadsheetClient.get
SpreadsheetClient_get(tableName) ==
    LET model == Lookup(models.byName, tableName)
    IN  IF model.t = "undefined" THEN ModelNotFound(tableName) ELSE model

\* createSpreadsheetClient's proxy over the client: a property of config.schema is
\* looked up with get, any other property is the client's own (the names asked for
\* here are none of the client's members)
createSpreadsheetClient_get(prop) ==
    IF HasProperty(models.byName, prop) THEN SpreadsheetClient_get(prop) ELSE NoValue

\* createSpreadsheetClient's proxy over client.models, in the variant that exposes
\* the models alone
ModelsProxy_get(prop) ==
    IF ~HasProperty(models.byName, prop) THEN NoValue ELSE Lookup(models.byName, prop)

\* ----------------------------------------------------------- where conditions
\* An operand of an operator key: a value, or an array of values.
One(v) == [v |-> v, arr |-> <<>>, isArr |-> FALSE]
Arr(l) == [v |-> Undef, arr |-> l, isArr |-> TRUE]
NoOps == [o \in {} |-> One(Undef)]
\* A field's condition: a literal, or an object of operator keys.
Lit(v) == [kind |-> "lit", lit |-> v, ops |-> NoOps]
Pred(ops) == [kind |-> "obj", lit |-> Undef, ops |-> ops]
\* args.where: present (an object, possibly {}) or absent
Where(w) == [present |-> TRUE, cond |-> w]
NoWhere == [present |-> FALSE, cond |-> [f \in {} |-> Lit(Undef)]]

\* orderBy: absent, or an object whose keys, in Object.entries order, carry a direction
OrderBy(keys) == [present |-> TRUE, keys |-> keys]
NoOrderBy == [present |-> FALSE, keys |-> <<>>]
By(key, dir) == [key |-> key, dir |-> dir]

IsPrefix(p, s) == Len(p) <= Len(s) /\ SubSeq(s, 1, Len(p)) = p
IsSuffix(p, s) == Len(p) <= Len(s) /\ SubSeq(s, Len(s) - Len(p) + 1, Len(s)) = p
IsInfix(p, s) == \E i \in 0..(Len(s) - Len(p)) : SubSeq(s, i + 1, i + Len(p)) = p

\* QueryEngine.evaluateCondition with an `in` that looks at the first element only
evaluateConditionFirstOfIn(value, c) ==
    LET has(o) == o \in DOMAIN c
        incl(l) == \E i \in 1..Len(l) : StrictEq(l[i], value)
    IN  IF has("equals") THEN ~c["equals"].isArr /\ StrictEq(value, c["equals"].v)
        ELSE IF has("not") THEN c["not"].isArr \/ ~StrictEq(value, c["not"].v)
        ELSE IF has("in") /\ c["in"].isArr
        THEN c["in"].arr # <<>> /\ StrictEq(c["in"].arr[1], value)
        ELSE IF has("notIn") /\ c["notIn"].isArr THEN ~incl(c["notIn"].arr)
        ELSE TRUE

\* QueryEngine.evaluateCondition: the first operator key that applies decides.
evaluateCondition(value, c) ==
    LET has(o) == o \in DOMAIN c
        ord(o) == has(o) /\ ~c[o].isArr /\ c[o].v.t \in {"number", "date"}
        txt(o) == has(o) /\ ~c[o].isArr /\ c[o].v.t = "string"
        vOrd == value.t \in {"number", "date"}
        vStr == value.t = "string"
        incl(l) == \E i \in 1..Len(l) : StrictEq(l[i], value)
    IN  IF has("equals") THEN ~c["equals"].isArr /\ StrictEq(value, c["equals"].v)
        ELSE IF has("not") THEN c["not"].isArr \/ ~StrictEq(value, c["not"].v)
        ELSE IF has("in") /\ c["in"].isArr THEN incl(c["in"].arr)
        ELSE IF has("notIn") /\ c["notIn"].isArr THEN ~incl(c["notIn"].arr)
        ELSE IF vOrd /\ ord("lt") THEN value.n < c["lt"].v.n
        ELSE IF vOrd /\ ord("lte") THEN value.n <= c["lte"].v.n
        ELSE IF vOrd /\ ord("gt") THEN value.n > c["gt"].v.n
        ELSE IF vOrd /\ ord("gte") THEN value.n >= c["gte"].v.n
        ELSE IF vStr /\ txt("contains") THEN IsInfix(c["contains"].v.s, value.s)
        ELSE IF vStr /\ txt("startsWith") THEN IsPrefix(c["startsWith"].v.s, value.s)
        ELSE IF vStr /\ txt("endsWith") THEN IsSuffix(c["endsWith"].v.s, value.s)
        ELSE TRUE

\* the callback of matchesWhere's every(): one field of the where against one record
matchesField(item, key, condition) ==
    LET value == Get(item, key)
    IN  IF condition.kind = "lit" /\ IsNullish(condition.lit)
        THEN StrictEq(value, condition.lit)
        ELSE IF condition.kind = "obj" \/ condition.lit.t = "date"
        THEN evaluateCondition(value, condition.ops)
        ELSE StrictEq(value, condition.lit)

\* QueryEngine.matchesWhere
matchesWhereAny(item, where) ==
    \E key \in DOMAIN where : matchesField(item, key, where[key])

matchesWhere(item, where) ==
    \A key \in DOMAIN where : matchesField(item, key, where[key])

\* QueryEngine.filter
RECURSIVE filterUntilMiss(_, _)
filterUntilMiss(records, where) ==
    IF ~where.present THEN records
    ELSE IF records = <<>> \/ ~matchesWhere(Head(records), where.cond) THEN <<>>
    ELSE <<Head(records)>> \o filterUntilMiss(Tail(records), where)

filter(records, where) ==
    IF ~where.present THEN records
    ELSE SelectSeq(records, LAMBDA item : matchesWhere(item, where.cond))

\* QueryEngine.findFirst, as the 0-based position of the record Array.find returns
\* (-1 when it returns undefined)
findFirst(records, where) ==
    LET hits == {i \in 1..Len(records) : matchesWhere(records[i], where)}
    IN  IF hits = {} THEN -1 ELSE (CHOOSE i \in hits : \A j \in hits : i <= j) - 1

\* if (v): the truthiness of a value
Truthy(v) ==
    CASE v.t = "number" -> v.n # 0
      [] v.t = "string" -> v.s # <<>>
      [] v.t = "boolean" -> v.n = 1
      [] v.t \in {"undefined", "null"} -> FALSE
      [] OTHER -> TRUE

\* Array.slice(start, end): a negative position counts from the end, and both are
\* clamped to the array
slice(seq, start, end) ==
    LET rel(k) == IF k < 0 THEN (IF Len(seq) + k < 0 THEN 0 ELSE Len(seq) + k)
                  ELSE (IF k > Len(seq) THEN Len(seq) ELSE k)
    IN  SubSeq(seq, rel(start) + 1, rel(end))

\* QueryEngine.paginate
paginate(records, take, skip) ==
    LET skipped == IF Truthy(skip) THEN slice(records, skip.n, Len(records)) ELSE records
    IN  IF Truthy(take) THEN slice(skipped, 0, take.n) ELSE skipped

\* ------------------------------------------------------------------- sort
\* The characters 0..9 of a string are the decimal digits; a larger number is a
\* character that collates after them, in the order of the numbers.
\* String(k) of a number k >= 0: its decimal digits
RECURSIVE Digits(_)
Digits(k) == IF k < 10 THEN <<k>> ELSE Append(Digits(k \div 10), k % 10)

\* String(v) of a number, a string or a boolean ("true", "false", the letter a
\* being character 20)
StringOf(v) ==
    CASE v.t = "number" /\ v.n >= 0 -> Digits(v.n)
      [] v.t = "string" -> v.s
      [] v.t = "boolean" -> IF v.n = 1 THEN <<39, 37, 40, 24>> ELSE <<25, 20, 31, 38, 24>>

\* a.localeCompare(b): negative, zero or positive by the first character that differs
RECURSIVE localeCompare(_, _)
localeCompare(a, b) ==
    IF a = <<>> THEN (IF b = <<>> THEN 0 ELSE -1)
    ELSE IF b = <<>> THEN 1
    ELSE IF Head(a) < Head(b) THEN -1
    ELSE IF Head(a) > Head(b) THEN 1
    ELSE localeCompare(Tail(a), Tail(b))

\* the comparison of one key's two values in sort's comparator
compareValuesNullLast(aVal, bVal) ==
    IF IsNullish(aVal) THEN (IF IsNullish(bVal) THEN 0 ELSE 1)
    ELSE IF IsNullish(bVal) THEN -1
    ELSE IF aVal.t = "string" /\ bVal.t = "string" THEN localeCompare(aVal.s, bVal.s)
    ELSE IF aVal.t = "number" /\ bVal.t = "number" THEN aVal.n - bVal.n
    ELSE IF aVal.t = "date" /\ bVal.t = "date" THEN aVal.n - bVal.n
    ELSE localeCompare(StringOf(aVal), StringOf(bVal))

compareValues(aVal, bVal) ==
    IF IsNullish(aVal) THEN (IF IsNullish(bVal) THEN 0 ELSE -1)
    ELSE IF IsNullish(bVal) THEN 1
    ELSE IF aVal.t = "string" /\ bVal.t = "string" THEN localeCompare(aVal.s, bVal.s)
    ELSE IF aVal.t = "number" /\ bVal.t = "number" THEN aVal.n - bVal.n
    ELSE IF aVal.t = "date" /\ bVal.t = "date" THEN aVal.n - bVal.n
    ELSE localeCompare(StringOf(aVal), StringOf(bVal))

\* sort's comparator: the loop over Object.entries(orderBy); the first key whose
\* comparison is not 0 decides, negated when its direction is desc
RECURSIVE compareRecordsLastKeyWins(_, _, _)
compareRecordsLastKeyWins(a, b, keys) ==
    IF keys = <<>> THEN 0
    ELSE LET comparison == compareValues(Get(a, Head(keys).key), Get(b, Head(keys).key))
             rest == compareRecordsLastKeyWins(a, b, Tail(keys))
         IN  IF rest # 0 THEN rest
             ELSE IF Head(keys).dir = "desc" THEN -comparison ELSE comparison

RECURSIVE compareRecords(_, _, _)
compareRecords(a, b, keys) ==
    IF keys = <<>> THEN 0
    ELSE LET comparison == compareValues(Get(a, Head(keys).key), Get(b, Head(keys).key))
         IN  IF comparison # 0
             THEN (IF Head(keys).dir = "desc" THEN -comparison ELSE comparison)
             ELSE compareRecords(a, b, Tail(keys))

\* Array.prototype.sort(comparefn) when comparefn is a consistent comparator of the
\* elements: the one stable order, each element after those that do not compare
\* greater than it
RECURSIVE stableSortTiesReversed(_, _)
stableSortTiesReversed(records, keys) ==
    IF records = <<>> THEN <<>>
    ELSE LET sorted == stableSortTiesReversed(SubSeq(records, 1, Len(records) - 1), keys)
             r == records[Len(records)]
             k == Cardinality({i \in 1..Len(sorted) : compareRecords(sorted[i], r, keys) < 0})
         IN  SubSeq(sorted, 1, k) \o <<r>> \o SubSeq(sorted, k + 1, Len(sorted))

RECURSIVE stableSort(_, _)
stableSort(records, keys) ==
    IF records = <<>> THEN <<>>
    ELSE LET sorted == stableSort(SubSeq(records, 1, Len(records) - 1), keys)
             r == records[Len(records)]
             k == Cardinality({i \in 1..Len(sorted) : compareRecords(sorted[i], r, keys) <= 0})
         IN  SubSeq(sorted, 1, k) \o <<r>> \o SubSeq(sorted, k + 1, Len(sorted))

\* comparefn is a consistent comparator of the records (ECMAScript, Array.prototype.sort):
\* it divides them into classes of equals that it orders totally
IsConsistentComparator(records, keys) ==
    LET n == Len(records)
        c(i, j) == compareRecords(records[i], records[j], keys)
    IN  /\ \A i \in 1..n : c(i, i) = 0
        /\ \A i, j \in 1..n : (c(i, j) < 0) = (c(j, i) > 0)
        /\ \A i, j, k \in 1..n : (c(i, j) <= 0 /\ c(j, k) <= 0) => c(i, k) <= 0

\* the pairs of positions <<i, j>> that a chain of comparisons "not greater" links
RECURSIVE Chained(_, _)
Chained(rel, rounds) ==
    IF rounds = 0 THEN rel
    ELSE Chained(rel \cup {<<z[1][1], z[2][2]>> : z \in {w \in rel \X rel : w[1][2] = w[2][1]}},
                 rounds - 1)
NotGreater(records, keys) ==
    LET n == Len(records)
        direct == {x \in (1..n) \X (1..n) : compareRecords(records[x[1]], records[x[2]], keys) <= 0}
    IN  Chained(direct, n)

\* the records at the positions p[1], p[2], ...
RECURSIVE Permuted(_, _, _)
Permuted(records, p, from) ==
    IF from > Len(records) THEN <<>>
    ELSE <<records[p[from]]>> \o Permuted(records, p, from + 1)

\* QueryEngine.sort: the arrays the call can return.  When the comparator is not a
\* consistent comparator of the records, the order Array.prototype.sort leaves is
\* implementation-defined: any order that no chain of comparisons contradicts.
sort(records, orderBy) ==
    LET n == Len(records)
        below == NotGreater(records, orderBy.keys)
        orders == {p \in [1..n -> 1..n] :
                     /\ \A a, b \in 1..n : a # b => p[a] # p[b]
                     /\ \A a, b \in 1..n : a < b => <<p[a], p[b]>> \in below}
    IN  IF ~orderBy.present THEN {records}
        ELSE IF IsConsistentComparator(records, orderBy.keys)
        THEN {stableSort(records, orderBy.keys)}
        ELSE {Permuted(records, p, 1) : p \in orders}

\* ------------------------------------------------------------------ schema
\* A ColumnDefinition with its field name.  xform names the parser/serializer
\* pair: "none", or "date" as column.date sets it.  default is Undef when the
\* column declares none.
Col(field, column, primary, xform, default) ==
    [field |-> field, column |-> column, primary |-> primary,
     xform |-> xform, default |-> default]

\* column.date's parser: value instanceof Date ? value : new Date(value).
\* An ISO string is the character 0 followed by the time.
IsoString(ms) == Str(<<0, ms>>)
dateParser(value) ==
    IF value.t = "date" THEN value
    ELSE IF value.t = "string" /\ Len(value.s) = 2 /\ value.s[1] = 0 THEN DateOf(value.s[2])
    ELSE IF value.t \in {"number", "boolean", "null"} THEN DateOf(value.n)
    ELSE InvalidDate

\* column.date's serializer: (value as Date).toISOString()
dateSerializer(value) ==
    IF value.t = "date" /\ value # InvalidDate THEN IsoString(value.n) ELSE Thrown

HasParser(col) == col.xform = "date"
HasSerializer(col) == col.xform = "date"

\* Array.indexOf / findIndex: of the positions (from 1) that satisfy the test, the
\* first one counted from 0, or -1 when there is none
FirstIndex(hits) ==
    IF hits = {} THEN -1 ELSE (CHOOSE i \in hits : \A j \in hits : i <= j) - 1

\* TableModel.setupColumnMap: the last column flagged primary, else "id" when the
\* schema has such a field, else undefined
NoPrimaryKey == "undefined"
setupColumnMap(sch) ==
    LET flagged == {i \in 1..Len(sch) : sch[i].primary}
    IN  IF flagged # {} THEN sch[CHOOSE i \in flagged : \A j \in flagged : j <= i].field
        ELSE IF \E i \in 1..Len(sch) : sch[i].field = "id" THEN "id"
        ELSE NoPrimaryKey

\* TableModel.mapRowToObject
mapRowToObject(sch, hdr, row) ==
    LET colIndex(c) == FirstIndex({k \in 1..Len(hdr) : hdr[k] = c.column})
        found == {i \in 1..Len(sch) : colIndex(sch[i]) # -1}
        cell(c) == LET k == colIndex(c) + 1 IN IF k <= Len(row) THEN row[k] ELSE Undef
    IN  [f \in {sch[i].field : i \in found} |->
            LET c == sch[CHOOSE i \in found : sch[i].field = f]
            IN  IF HasParser(c) THEN dateParser(cell(c)) ELSE cell(c)]

\* TableModel.mapObjectToRow
RECURSIVE mapObjectToRow(_, _, _)
mapObjectToRow(sch, hdr, obj) ==
    IF hdr = <<>> THEN <<>>
    ELSE LET e == FirstIndex({i \in 1..Len(sch) : sch[i].column = Head(hdr)})
             c == sch[e + 1]
             value == Get(obj, c.field)
             cell == IF e = -1 THEN Str(<<>>)
                     ELSE IF HasSerializer(c) THEN dateSerializer(value)
                     ELSE value
         IN  <<cell>> \o mapObjectToRow(sch, Tail(hdr), obj)

\* a serializer threw while the row was built
Throws(row) == \E k \in 1..Len(row) : row[k] = Thrown

\* TableModel.load: the cache read from the data rows
RECURSIVE MapRows(_, _, _)
MapRows(sch, hdr, rows) ==
    IF rows = <<>> THEN <<>>
    ELSE <<mapRowToObject(sch, hdr, Head(rows))>> \o MapRows(sch, hdr, Tail(rows))
load(sch, hdr, sh) == MapRows(sch, hdr, Tail(sh))

\* TableModel.findRowIndex
findRowIndex(records, pk, id) ==
    FirstIndex({i \in 1..Len(records) : StrictEq(Get(records[i], pk), id)})

\* a default that is a function: () => new Date()
Generator == [t |-> "function", n |-> 0, s |-> <<>>]

\* the defaults loop of TableModel.create: the columns it fills
defaultedColumnsWhateverSupplied(sch, argsData) ==
    {i \in 1..Len(sch) : sch[i].default # Undef}

defaultedColumns(sch, argsData) ==
    {i \in 1..Len(sch) : sch[i].default # Undef /\ Get(argsData, sch[i].field) = Undef}

\* the defaults loop of TableModel.create: the calls of columnDef.default() it makes
generatorCalls(sch, argsData) ==
    Cardinality({i \in defaultedColumns(sch, argsData) : sch[i].default = Generator})

\* the defaults loop of TableModel.create
applyDefaults(sch, argsData) ==
    LET defaulted == defaultedColumns(sch, argsData)
        \* the generators called before column i's
        earlier(i) == Cardinality({j \in defaulted : j < i /\ sch[j].default = Generator})
    IN  [f \in DOMAIN argsData \cup {sch[i].field : i \in defaulted} |->
            IF \E i \in defaulted : sch[i].field = f
            THEN LET i == CHOOSE i \in defaulted : sch[i].field = f
                 IN  IF sch[i].default = Generator THEN DateOf(now + earlier(i))
                     ELSE sch[i].default
            ELSE argsData[f]]

\* Array.splice(index, 1) and Sheet.deleteRow(row), positions counted from 1
RemoveAt(seq, k) ==
    IF k < 1 \/ k > Len(seq) THEN seq
    ELSE SubSeq(seq, 1, k - 1) \o SubSeq(seq, k + 1, Len(seq))

\* Array.sort((a, b) => b - a)
RECURSIVE SortDesc(_)
SortDesc(seq) ==
    IF seq = <<>> THEN <<>>
    ELSE LET k == CHOOSE i \in 1..Len(seq) : \A j \in 1..Len(seq) : seq[j] <= seq[i]
         IN  <<seq[k]>> \o SortDesc(RemoveAt(seq, k))

\* ------------------------------------------------------------------- sheet
\* Sheet.appendRow(values)
appendRowBelowHeader(sh, values) == <<Head(sh), values>> \o Tail(sh)

appendRow(sh, values) == Append(sh, values)
\* Sheet.getRange(row, 1, 1, n).setValues([values]); a row below the last one is
\* reached over blank rows
RECURSIVE setValues(_, _, _)
setValues(sh, row, values) ==
    IF row <= Len(sh) THEN [sh EXCEPT ![row] = values]
    ELSE IF row = Len(sh) + 1 THEN Append(sh, values)
    ELSE setValues(Append(sh, [k \in 1..Len(values) |-> Str(<<>>)]), row, values)
\* Sheet.deleteRow(row): the rows below move up; a row below the last one holds nothing
deleteRow(sh, row) == RemoveAt(sh, row)

\* --------------------------------------------------------- errors and results
NoError == [kind |-> "none", field |-> "", value |-> Undef]
\* Error(`Record with ${primaryKey} '${primaryKeyValue}' already exists`)
DuplicateError(pk, pkv) == [kind |-> "duplicate", field |-> pk, value |-> pkv]
\* Error("Record not found")
NotFoundError == [kind |-> "notfound", field |-> "", value |-> Undef]
\* the TypeError of a serializer applied to a value that is no Date
SerializerError == [kind |-> "typeerror", field |-> "", value |-> Undef]

\* the error a sheet call throws when the backing store fails
StorageError == [kind |-> "storage", field |-> "", value |-> Undef]

\* What a call leaves: the cache, the sheet, the error thrown (NoError when it
\* returned), the record returned, deleteMany's count, and the sheet calls made.
Outcome(recs, sh, err, ret, count, calls) ==
    [data |-> recs, sheet |-> sh, err |-> err, ret |-> ret, count |-> count, calls |-> calls]
Call(fn, row) == [fn |-> fn, row |-> row]

\* --------------------------------------------------------------- TableModel
\* TableModel.create, the duplicate check: some cached record carries newData's key
isDuplicateKeyTruthyIndex(newData) ==
    /\ primaryKey # NoPrimaryKey
    /\ Get(newData, primaryKey) # Undef
    /\ findRowIndex(data, primaryKey, Get(newData, primaryKey)) > 0

isDuplicateKey(newData) ==
    /\ primaryKey # NoPrimaryKey
    /\ Get(newData, primaryKey) # Undef
    /\ findRowIndex(data, primaryKey, Get(newData, primaryKey)) # -1

\* TableModel.create
create(argsData) ==
    LET newData == applyDefaults(schema, argsData)
        values == mapObjectToRow(schema, headers, newData)
        pushed == Append(data, newData)
    IN  IF isDuplicateKey(newData)
        THEN Outcome(data, sheet, DuplicateError(primaryKey, Get(newData, primaryKey)),
                     EmptyRec, 0, <<>>)
        ELSE IF Throws(values)
        THEN Outcome(pushed, sheet, SerializerError, EmptyRec, 0, <<>>)
        ELSE Outcome(pushed, appendRow(sheet, values), NoError, newData, 0,
                     <<Call("appendRow", Len(sheet) + 1)>>)

\* TableModel.update
update(where, argsData) ==
    LET found == findFirst(data, where)
        existing == data[found + 1]
        targetIndex == findRowIndex(data, primaryKey, Get(existing, primaryKey))
        updatedData == Spread(existing, argsData)
        values == mapObjectToRow(schema, headers, updatedData)
        stored == [data EXCEPT ![targetIndex + 1] = updatedData]
    IN  IF found = -1 THEN Outcome(data, sheet, NotFoundError, EmptyRec, 0, <<>>)
        ELSE IF targetIndex = -1 THEN Outcome(data, sheet, NotFoundError, EmptyRec, 0, <<>>)
        ELSE IF Throws(values) THEN Outcome(stored, sheet, SerializerError, EmptyRec, 0, <<>>)
        ELSE Outcome(stored, setValues(sheet, targetIndex + 2, values), NoError,
                     updatedData, 0, <<Call("setValues", targetIndex + 2)>>)

\* TableModel.delete
delete(where) ==
    LET found == findFirst(data, where)
        existing == data[found + 1]
        targetIndex == findRowIndex(data, primaryKey, Get(existing, primaryKey))
    IN  IF found = -1 THEN Outcome(data, sheet, NotFoundError, EmptyRec, 0, <<>>)
        ELSE IF targetIndex = -1 THEN Outcome(data, sheet, NotFoundError, EmptyRec, 0, <<>>)
        ELSE Outcome(RemoveAt(data, targetIndex + 1), deleteRow(sheet, targetIndex + 2),
                     NoError, existing, 0, <<Call("deleteRow", targetIndex + 2)>>)

\* TableModel.deleteMany: the loop over the sorted indices
RECURSIVE deleteLoop(_, _)
deleteLoop(indices, acc) ==
    IF indices = <<>> THEN acc
    ELSE LET index == Head(indices)
         IN  IF index # -1
             THEN deleteLoop(Tail(indices),
                    [acc EXCEPT !.data = RemoveAt(@, index + 1),
                                !.sheet = deleteRow(@, index + 2),
                                !.calls = Append(@, Call("deleteRow", index + 2))])
             ELSE deleteLoop(Tail(indices), acc)

\* TableModel.deleteMany
deleteMany(where) ==
    LET toDelete == IF where.present THEN filter(data, where) ELSE data
        found == [i \in 1..Len(toDelete) |->
                    findRowIndex(data, primaryKey, Get(toDelete[i], primaryKey))]
        indices == SortDesc(found)
    IN  deleteLoop(indices, Outcome(data, sheet, NoError, EmptyRec, Len(indices), <<>>))

\* create, update or delete when its sheet call (appendRow, setValues, deleteRow)
\* throws: the call is the last statement but the return, and the cache was assigned
\* before it.  out is what the call leaves when the sheet call succeeds.
sheetWriteFailsRolledBack(out) ==
    IF out.calls = <<>> THEN out
    ELSE [out EXCEPT !.data = data, !.sheet = sheet, !.err = StorageError, !.ret = EmptyRec]

sheetWriteFails(out) ==
    IF out.calls = <<>> THEN out
    ELSE [out EXCEPT !.sheet = sheet, !.err = StorageError, !.ret = EmptyRec]

\* TableModel.deleteMany when its k-th deleteRow call throws: the loop over the
\* sorted indices
RECURSIVE deleteLoopFails(_, _, _)
deleteLoopFails(indices, acc, k) ==
    IF indices = <<>> THEN acc
    ELSE LET index == Head(indices)
         IN  IF index # -1
             THEN IF k = 1
                  THEN [acc EXCEPT !.data = RemoveAt(@, index + 1),
                                   !.calls = Append(@, Call("deleteRow", index + 2)),
                                   !.err = StorageError, !.count = 0]
                  ELSE deleteLoopFails(Tail(indices),
                         [acc EXCEPT !.data = RemoveAt(@, index + 1),
                                     !.sheet = deleteRow(@, index + 2),
                                     !.calls = Append(@, Call("deleteRow", index + 2))],
                         k - 1)
             ELSE deleteLoopFails(Tail(indices), acc, k)

\* TableModel.deleteMany when its k-th deleteRow call throws
deleteManyFails(where, k) ==
    LET toDelete == IF where.present THEN filter(data, where) ELSE data
        found == [i \in 1..Len(toDelete) |->
                    findRowIndex(data, primaryKey, Get(toDelete[i], primaryKey))]
        indices == SortDesc(found)
    IN  deleteLoopFails(indices, Outcome(data, sheet, NoError, EmptyRec, Len(indices), <<>>), k)

\* The cache's records each with its position in the cache, which stands for the
\* identity of the object: filter, sort and paginate hand on the objects they are given.
Tagged(records) == [i \in 1..Len(records) |-> records[i] @@ ("@" :> Num(i))]
Untagged(records) ==
    [i \in 1..Len(records) |-> [f \in DOMAIN records[i] \ {"@"} |-> records[i][f]]]

\* QueryEngine.sort: Array.prototype.sort orders the array it is called on and
\* returns it; sort calls it on [...this.data], so the array the engine was built
\* over stays as it was.  records is that array, sorted the array returned.
engineArrayAfterSortInPlace(records, sorted) == sorted

engineArrayAfterSort(records, sorted) == records

\* TableModel.findMany: the arrays the call can return, whether the array is
\* this.data itself, and the cache the call leaves.  Without a where the engine
\* that sorts is built over this.data itself; filter hands it a new array.
findManyPaginateFirst(args) ==
    LET filtered == IF args.where.present THEN filter(Tagged(data), args.where)
                    ELSE Tagged(data)
        paged == Truthy(args.skip) \/ Truthy(args.take)
        cut == IF paged THEN paginate(filtered, args.take, args.skip) ELSE filtered
        sorted == IF args.orderBy.present THEN sort(cut, args.orderBy) ELSE {cut}
    IN  {[recs |-> r, data |-> data,
          isCache |-> ~args.where.present /\ ~args.orderBy.present /\ ~paged] : r \in sorted}

findMany(args) ==
    LET filtered == IF args.where.present THEN filter(Tagged(data), args.where)
                    ELSE Tagged(data)
        sorted == IF args.orderBy.present THEN sort(filtered, args.orderBy) ELSE {filtered}
        paged == Truthy(args.skip) \/ Truthy(args.take)
    IN  {[recs |-> IF paged THEN paginate(r, args.take, args.skip) ELSE r,
          data |-> IF args.orderBy.present /\ ~args.where.present
                   THEN Untagged(engineArrayAfterSort(Tagged(data), r))
                   ELSE data,
          isCache |-> ~args.where.present /\ ~args.orderBy.present /\ ~paged] : r \in sorted}

\* TableModel.count: the numbers the call can return
count(args) == {Len(r.recs) : r \in findMany(args)}

\* TableModel.findUnique, and findFirst which calls it: the 0-based position of the
\* record returned, -1 when null is returned
findUniqueLastMatch(where) ==
    LET hits == {i \in 1..Len(data) : matchesWhere(data[i], where)}
    IN  IF hits = {} THEN -1 ELSE (CHOOSE i \in hits : \A j \in hits : j <= i) - 1

findUnique(where) == findFirst(data, where)

\* TableModel.findFirst
TableModel_findFirst(where) == findUnique(where)

\* ------------------------------------------------------- schemas and inputs
\* The schemas the tables are built with: example.ts's userSchema cut to its key and
\* one plain column, and a table with a column.date column.
UserSchema ==
    <<Col("id", "ID", TRUE, "none", Undef), Col("name", "Name", FALSE, "none", Undef)>>
EventSchema ==
    <<Col("id", "ID", TRUE, "none", Undef),
      Col("createdAt", "CreatedAt", FALSE, "date", Undef)>>

\* example.ts's userSchema cut to its key and its two columns with a default: a
\* constant, and the generator () => new Date()
DefaultsSchema ==
    <<Col("id", "ID", TRUE, "none", Undef),
      Col("isActive", "IsActive", FALSE, "none", Bool(TRUE)),
      Col("createdAt", "CreatedAt", FALSE, "date", Generator)>>
\* Schemas that do not flag exactly one column primary: none flagged and no field
\* id, none flagged and a field id, two flagged.
NoKeySchema == <<Col("name", "Name", FALSE, "none", Undef)>>
UnflaggedIdSchema ==
    <<Col("id", "ID", FALSE, "none", Undef), Col("name", "Name", FALSE, "none", Undef)>>
TwoKeySchema ==
    <<Col("id", "ID", TRUE, "none", Undef), Col("name", "Name", TRUE, "none", Undef)>>

\* The sheets a TableModel is constructed on: a header row and data rows with
\* pairwise distinct key cells.  The header may reorder the schema's labels and
\* hold columns the schema does not map.
Sheets ==
    << [schema |-> UserSchema, sheet |-> <<<<"ID", "Name">>>>],
       [schema |-> UserSchema,
        sheet |-> <<<<"ID", "Name">>, <<Num(1), Str(<<1>>)>>, <<Num(2), Str(<<2>>)>>>>],
       [schema |-> UserSchema,
        sheet |-> <<<<"Name", "ID", "Memo">>, <<Str(<<1>>), Num(1), Str(<<3>>)>>>>],
       [schema |-> EventSchema, sheet |-> <<<<"ID", "CreatedAt">>>>],
       [schema |-> EventSchema,
        sheet |-> <<<<"ID", "CreatedAt">>, <<Num(1), IsoString(5)>>>>] >>

\* The sheets of the tables with defaults, and of those whose schema does not flag
\* exactly one column primary.
DefaultsSheets ==
    << [schema |-> DefaultsSchema, sheet |-> <<<<"ID", "IsActive", "CreatedAt">>>>],
       [schema |-> DefaultsSchema,
        sheet |-> <<<<"ID", "IsActive", "CreatedAt">>, <<Num(1), Bool(FALSE), IsoString(5)>>>>] >>
InvalidSheets ==
    << [schema |-> NoKeySchema, sheet |-> <<<<"Name">>, <<Str(<<1>>)>>>>],
       [schema |-> UnflaggedIdSchema,
        sheet |-> <<<<"ID", "Name">>, <<Num(1), Str(<<1>>)>>>>],
       [schema |-> TwoKeySchema,
        sheet |-> <<<<"ID", "Name">>, <<Num(1), Str(<<1>>)>>, <<Num(2), Str(<<2>>)>>>>] >>

\* args.data of create
CreateData ==
    CASE schema = EventSchema ->
           << ("id" :> Num(1)) @@ ("createdAt" :> DateOf(5)),
              ("id" :> Num(2)) @@ ("createdAt" :> DateOf(6)),
              ("id" :> Num(2)) >>
      [] schema = DefaultsSchema ->
           << ("id" :> Num(1)),
              ("id" :> Num(2)) @@ ("isActive" :> Bool(FALSE)),
              ("id" :> Num(3)) @@ ("isActive" :> Null),
              ("id" :> Num(1)) @@ ("createdAt" :> DateOf(7)),
              ("id" :> Num(2)) @@ ("createdAt" :> Null),
              ("id" :> Num(3)) @@ ("isActive" :> Bool(FALSE)) @@ ("createdAt" :> DateOf(7)) >>
      [] OTHER ->
           << ("id" :> Num(1)) @@ ("name" :> Str(<<1>>)),
              ("id" :> Num(2)) @@ ("name" :> Str(<<2>>)),
              ("id" :> Num(1)) @@ ("name" :> Str(<<2>>)),
              ("name" :> Str(<<1>>)),
              ("name" :> Str(<<2>>)) >>

\* args.data of update
UpdateData ==
    IF schema \in {EventSchema, DefaultsSchema}
    THEN << ("createdAt" :> DateOf(6)) >>
    ELSE << ("name" :> Str(<<2>>)), ("id" :> Num(2)) >>

\* args.where of update, delete and deleteMany
WhereArgs ==
    IF schema \in {EventSchema, DefaultsSchema}
    THEN << Where("id" :> Lit(Num(1))), Where("id" :> Lit(Num(2))) >>
    ELSE << Where("id" :> Lit(Num(1))),
            Where("name" :> Lit(Str(<<1>>))),
            Where("name" :> Lit(Str(<<2>>))),
            Where(("id" :> Lit(Num(1))) @@ ("name" :> Lit(Str(<<2>>)))),
            Where([f \in {} |-> Lit(Undef)]) >>

\* ------------------------------------------------------------------ the calls
\* FindManyArgs: where, orderBy, take and skip, each of them optional
NoFind == [where |-> NoWhere, orderBy |-> NoOrderBy, take |-> Undef, skip |-> Undef]

NoCall ==
    [op |-> "new", where |-> NoWhere, data |-> EmptyRec, err |-> NoError, ret |-> EmptyRec,
     count |-> 0, calls |-> <<>>, preData |-> <<>>, preSheet |-> <<>>, gens |-> 0,
     find |-> NoFind]

\* The caller holds nothing, or the value a read returned: an array (the cache's own
\* array when isCache) or a record.  refs[i] is the cache position of the object
\* recs[i] is, 0 when the cache does not hold the object; seen is the cache as it
\* was when the read returned, and touched tells that the caller has since changed
\* the value.
NoHeld ==
    [kind |-> "none", isCache |-> FALSE, refs |-> <<>>, recs |-> <<>>, seen |-> <<>>,
     touched |-> FALSE]

\* the state a call leaves, and the record of the call
Did(opName, where, argsData, out) ==
    /\ data' = out.data
    /\ sheet' = out.sheet
    /\ now' = now + (IF opName = "create" THEN generatorCalls(schema, argsData) ELSE 0)
    /\ last' = [op |-> opName, where |-> where, data |-> argsData, err |-> out.err,
                ret |-> out.ret, count |-> out.count, calls |-> out.calls,
                preData |-> data, preSheet |-> sheet, gens |-> now' - now, find |-> NoFind]
    /\ held' = NoHeld
    /\ UNCHANGED <<peer, models, schema, primaryKey, headers, qe>>

NoQuery ==
    [data |-> <<>>, where |-> NoWhere, orderBy |-> NoOrderBy, take |-> Undef, skip |-> Undef,
     result |-> <<>>, again |-> <<>>, pc |-> "none"]

\* new TableModel(spreadsheetId, sheetName, schema): setupColumnMap, initializeSheet, load
Constructed(cfg) ==
    /\ schema = cfg.schema
    /\ primaryKey = setupColumnMap(cfg.schema)
    /\ headers = cfg.sheet[1]
    /\ sheet = cfg.sheet
    /\ data = load(cfg.schema, cfg.sheet[1], cfg.sheet)
    /\ last = NoCall
    /\ held = NoHeld
    /\ models = NoModels
    /\ peer = NoPeer
    /\ now = 0
    /\ qe = NoQuery

Init == \E c \in 1..Len(Sheets) : Constructed(Sheets[c])

Create ==
    /\ Len(data) < MaxRows
    /\ now < MaxNow
    /\ \E i \in 1..Len(CreateData) :
          Did("create", NoWhere, CreateData[i], create(CreateData[i]))

Update ==
    \E w \in 1..Len(WhereArgs), i \in 1..Len(UpdateData) :
        Did("update", WhereArgs[w], UpdateData[i], update(WhereArgs[w].cond, UpdateData[i]))

Delete ==
    \E w \in 1..Len(WhereArgs) :
        Did("delete", WhereArgs[w], EmptyRec, delete(WhereArgs[w].cond))

DeleteMany ==
    \/ \E w \in 1..Len(WhereArgs) :
          Did("deleteMany", WhereArgs[w], EmptyRec, deleteMany(WhereArgs[w]))
    \/ Did("deleteMany", NoWhere, EmptyRec, deleteMany(NoWhere))

Next == Create \/ Update \/ Delete \/ DeleteMany

\* The calls whose sheet call throws.
CreateFails ==
    /\ Len(data) < MaxRows
    /\ now < MaxNow
    /\ \E i \in 1..Len(CreateData) :
          /\ sheetWriteFails(create(CreateData[i])).err = StorageError
          /\ Did("create", NoWhere, CreateData[i], sheetWriteFails(create(CreateData[i])))

UpdateFails ==
    \E w \in 1..Len(WhereArgs), i \in 1..Len(UpdateData) :
        /\ sheetWriteFails(update(WhereArgs[w].cond, UpdateData[i])).err = StorageError
        /\ Did("update", WhereArgs[w], UpdateData[i],
               sheetWriteFails(update(WhereArgs[w].cond, UpdateData[i])))

DeleteFails ==
    \E w \in 1..Len(WhereArgs) :
        /\ sheetWriteFails(delete(WhereArgs[w].cond)).err = StorageError
        /\ Did("delete", WhereArgs[w], EmptyRec, sheetWriteFails(delete(WhereArgs[w].cond)))

DeleteManyFails ==
    \E w \in 1..Len(WhereArgs), k \in 1..MaxRows :
        /\ deleteManyFails(WhereArgs[w], k).err = StorageError
        /\ Did("deleteMany", WhereArgs[w], EmptyRec, deleteManyFails(WhereArgs[w], k))

NextFails == CreateFails \/ UpdateFails \/ DeleteFails \/ DeleteManyFails

\* the arguments of findMany
FindArgs ==
    << NoFind,
       [NoFind EXCEPT !.where = WhereArgs[1]],
       [NoFind EXCEPT !.orderBy = OrderBy(<<By("id", "desc")>>)],
       [NoFind EXCEPT !.take = Num(1)],
       [NoFind EXCEPT !.skip = Num(1)],
       [NoFind EXCEPT !.take = Num(0)],
       [where |-> WhereArgs[2], orderBy |-> OrderBy(<<By("id", "asc")>>),
        take |-> Num(1), skip |-> Num(0)],
       [NoFind EXCEPT !.orderBy = OrderBy(<<By("id", "desc")>>), !.take = Num(1)],
       [NoFind EXCEPT !.orderBy = OrderBy(<<By("name", "desc")>>), !.skip = Num(1)],
       [NoFind EXCEPT !.orderBy = OrderBy(<<>>)],
       [NoFind EXCEPT !.where = Where([f \in {} |-> Lit(Undef)]), !.skip = Num(1),
                      !.take = Num(1)] >>

\* a read: the cache and the sheet stay, the caller holds what was returned
Read(opName, args, kind, isCache, refs, after) ==
    /\ data' = after
    /\ held' = [kind |-> kind, isCache |-> isCache, refs |-> refs,
                recs |-> [i \in 1..Len(refs) |-> data[refs[i]]], seen |-> data,
                touched |-> FALSE]
    /\ last' = [NoCall EXCEPT !.op = opName, !.where = args.where, !.find = args,
                               !.count = Len(refs), !.preData = data, !.preSheet = sheet]
    /\ UNCHANGED <<peer, models, schema, primaryKey, headers, sheet, qe, now>>

FindMany ==
    \E a \in 1..Len(FindArgs) : \E r \in findMany(FindArgs[a]) :
        Read("findMany", FindArgs[a], "array", r.isCache,
             [i \in 1..Len(r.recs) |-> r.recs[i]["@"].n], r.data)

CountCall ==
    \E a \in 1..Len(FindArgs) : \E n \in count(FindArgs[a]) :
      \E r \in findMany(FindArgs[a]) :
        /\ Len(r.recs) = n
        /\ data' = r.data
        /\ last' = [NoCall EXCEPT !.op = "count", !.where = FindArgs[a].where,
                                   !.find = FindArgs[a], !.count = n,
                                   !.preData = data, !.preSheet = sheet]
        /\ held' = NoHeld
        /\ UNCHANGED <<peer, models, schema, primaryKey, headers, sheet, qe, now>>

FindUnique ==
    \E w \in 1..Len(WhereArgs) :
        LET found == findUnique(WhereArgs[w].cond)
        IN  Read("findUnique", [NoFind EXCEPT !.where = WhereArgs[w]],
                 IF found = -1 THEN "null" ELSE "record", FALSE,
                 IF found = -1 THEN <<>> ELSE <<found + 1>>, data)

FindFirst ==
    \E w \in 1..Len(WhereArgs) :
        LET found == TableModel_findFirst(WhereArgs[w].cond)
        IN  Read("findFirst", [NoFind EXCEPT !.where = WhereArgs[w]],
                 IF found = -1 THEN "null" ELSE "record", FALSE,
                 IF found = -1 THEN <<>> ELSE <<found + 1>>, data)

\* what the caller does to a value a read returned
PushedRecord == ("id" :> Num(3)) @@ ("name" :> Str(<<3>>))
\* result.push(record)
CallerPush ==
    /\ held.kind = "array"
    /\ Len(held.recs) < MaxRows
    /\ Len(data) < MaxRows
    /\ held' = [held EXCEPT !.recs = Append(@, PushedRecord),
                            !.refs = Append(@, IF held.isCache THEN Len(data) + 1 ELSE 0),
                            !.touched = TRUE]
    /\ data' = IF held.isCache THEN Append(data, PushedRecord) ELSE data
    /\ UNCHANGED <<peer, models, schema, primaryKey, headers, sheet, last, qe, now>>
\* result.pop()
CallerPop ==
    /\ held.kind = "array"
    /\ held.recs # <<>>
    /\ held' = [held EXCEPT !.recs = SubSeq(@, 1, Len(@) - 1),
                            !.refs = SubSeq(@, 1, Len(@) - 1), !.touched = TRUE]
    /\ data' = IF held.isCache THEN SubSeq(data, 1, Len(data) - 1) ELSE data
    /\ UNCHANGED <<peer, models, schema, primaryKey, headers, sheet, last, qe, now>>
\* result[i].name = value, or record.name = value
CallerSetField ==
    /\ held.kind \in {"array", "record"}
    /\ \E i \in 1..Len(held.refs) :
          /\ held' = [held EXCEPT !.recs[i] = ("name" :> Str(<<3>>)) @@ @, !.touched = TRUE]
          /\ data' = IF held.refs[i] # 0
                     THEN [data EXCEPT ![held.refs[i]] = ("name" :> Str(<<3>>)) @@ @]
                     ELSE data
    /\ UNCHANGED <<peer, models, schema, primaryKey, headers, sheet, last, qe, now>>

\* Reads, and callers that change what they were handed.
SpecRead ==
    Init /\ [][FindMany \/ CountCall \/ FindUnique \/ FindFirst \/ CallerPush \/ CallerPop \/ CallerSetField]_vars

Spec == Init /\ [][Next]_vars

\* The calls of a table whose sheet calls may throw, up to the first call in which
\* one throws.
NextFaulty == last.err # StorageError /\ (Next \/ NextFails)
SpecFaulty == Init /\ [][NextFaulty]_vars

\* Only calls that return: the states a sequence of successful calls reaches.
NextOk == Next /\ last'.err = NoError
SpecOk == Init /\ [][NextOk]_vars

\* Only tables whose header row holds the schema's labels and no other.
InitMapped ==
    \E c \in 1..Len(Sheets) :
        /\ \A k \in 1..Len(Sheets[c].sheet[1]) : \E i \in 1..Len(Sheets[c].schema) :
              Sheets[c].schema[i].column = Sheets[c].sheet[1][k]
        /\ Constructed(Sheets[c])
SpecMapped == InitMapped /\ [][Next]_vars

\* Tables whose schema does not flag exactly one column primary.
InitInvalid == \E c \in 1..Len(InvalidSheets) : Constructed(InvalidSheets[c])
SpecInvalid == InitInvalid /\ [][Next]_vars

\* Tables with defaults: create and delete calls.
InitDefaults == \E c \in 1..Len(DefaultsSheets) : Constructed(DefaultsSheets[c])
SpecDefaults == InitDefaults /\ [][Create \/ Delete]_vars

\* Only create calls, on a table loaded from a header row alone.
InitEmpty == \E c \in 1..Len(Sheets) : Len(Sheets[c].sheet) = 1 /\ Constructed(Sheets[c])
SpecCreate == InitEmpty /\ [][Create]_vars

\* ------------------------------------- the cache-only SpreadsheetClient
\* The single-table SpreadsheetClient of src/src/client.ts keeps its cache in `data`
\* and writes the sheet only in save().
\*
\* A cell without content: the empty string a blank cell reads as, or a null or
\* undefined written to it.
IsBlank(v) == v \in {Str(<<>>), Null, Undef}
\* Sheet.getLastRow(): the position of the last row that has content.  The header
\* row has content.
getLastRow(sh) ==
    LET full == {r \in 2..Len(sh) : \E k \in 1..Len(sh[r]) : ~IsBlank(sh[r][k])}
    IN  IF full = {} THEN 1 ELSE CHOOSE r \in full : \A q \in full : q <= r
\* Sheet.getDataRange().getValues(): the rows down to the last one with content
getValues(sh) == SubSeq(sh, 1, getLastRow(sh))
\* Sheet.getRange(row, 1, numRows, numColumns).clearContent()
clearContent(sh, row, numRows, numColumns) ==
    [r \in 1..Len(sh) |->
        IF r >= row /\ r < row + numRows
        THEN [k \in 1..Len(sh[r]) |-> IF k <= numColumns THEN Str(<<>>) ELSE sh[r][k]]
        ELSE sh[r]]
\* Sheet.getRange(row, 1, rows.length, rows[0].length).setValues(rows), for a row
\* not below the first free one
setValuesBlock(sh, row, rows) ==
    LET bottom == IF row + Len(rows) - 1 > Len(sh) THEN row + Len(rows) - 1 ELSE Len(sh)
    IN  [r \in 1..bottom |->
            IF r >= row /\ r < row + Len(rows) THEN rows[r - row + 1] ELSE sh[r]]

\* SpreadsheetClient.validateSchema: exactly one column is flagged primary
validateSchema(sch) == Cardinality({i \in 1..Len(sch) : sch[i].primary}) = 1
\* SpreadsheetClient.getPrimaryKeyField: the first column flagged primary
getPrimaryKeyField(sch) ==
    sch[CHOOSE i \in 1..Len(sch) :
            sch[i].primary /\ \A j \in 1..Len(sch) : sch[j].primary => i <= j].field

\* SpreadsheetClient.parseRow
parseRow(sch, hdr, row) ==
    LET colIndex(c) == FirstIndex({k \in 1..Len(hdr) : hdr[k] = c.column})
        found == {i \in 1..Len(sch) : colIndex(sch[i]) # -1}
        cell(c) == LET k == colIndex(c) + 1 IN IF k <= Len(row) THEN row[k] ELSE Undef
    IN  [f \in {sch[i].field : i \in found} |->
            LET c == sch[CHOOSE i \in found : sch[i].field = f]
            IN  IF HasParser(c) /\ ~IsNullish(cell(c)) THEN dateParser(cell(c)) ELSE cell(c)]

\* SpreadsheetClient.serializeRow
RECURSIVE serializeRow(_, _, _)
serializeRow(sch, hdr, record) ==
    IF hdr = <<>> THEN <<>>
    ELSE LET e == FirstIndex({i \in 1..Len(sch) : sch[i].column = Head(hdr)})
             c == sch[e + 1]
             value == Get(record, c.field)
             cell == IF e = -1 THEN Str(<<>>)
                     ELSE IF HasSerializer(c) /\ ~IsNullish(value) THEN dateSerializer(value)
                     ELSE value
         IN  <<cell>> \o serializeRow(sch, Tail(hdr), record)

\* SpreadsheetClient.applyDefaults: the columns it fills, the calls of
\* columnDef.default() it makes, and the record it returns
Client_defaultedColumns(sch, argsData) ==
    {i \in 1..Len(sch) : IsNullish(Get(argsData, sch[i].field)) /\ ~IsNullish(sch[i].default)}
Client_generatorCalls(sch, argsData) ==
    Cardinality({i \in Client_defaultedColumns(sch, argsData) : sch[i].default = Generator})
Client_applyDefaults(sch, argsData) ==
    LET defaulted == Client_defaultedColumns(sch, argsData)
        earlier(i) == Cardinality({j \in defaulted : j < i /\ sch[j].default = Generator})
    IN  [f \in DOMAIN argsData \cup {sch[i].field : i \in defaulted} |->
            IF \E i \in defaulted : sch[i].field = f
            THEN LET i == CHOOSE i \in defaulted : sch[i].field = f
                 IN  IF sch[i].default = Generator THEN DateOf(now + earlier(i))
                     ELSE sch[i].default
            ELSE argsData[f]]

\* SpreadsheetClient.findRecordByData
findRecordByData(records, partial) ==
    FirstIndex({i \in 1..Len(records) :
                  \A key \in DOMAIN partial : StrictEq(Get(records[i], key), partial[key])})

\* SpreadsheetClient.create
Client_createWriteThrough(argsData) ==
    LET record == Client_applyDefaults(schema, argsData)
    IN  Outcome(Append(data, record), Append(sheet, serializeRow(schema, headers, record)),
                NoError, record, 0, <<Call("appendRow", Len(sheet) + 1)>>)

\* of an instance whose this.data is cache
Client_createIn(cache, argsData) ==
    LET record == Client_applyDefaults(schema, argsData)
    IN  Outcome(Append(cache, record), sheet, NoError, record, 0, <<>>)

Client_create(argsData) == Client_createIn(data, argsData)

\* SpreadsheetClient.update
Client_updateIn(cache, where, argsData) ==
    LET index == findRecordByData(cache, where)
        updatedRecord == Spread(cache[index + 1], argsData)
    IN  IF index = -1 THEN Outcome(cache, sheet, NotFoundError, EmptyRec, 0, <<>>)
        ELSE Outcome([cache EXCEPT ![index + 1] = updatedRecord], sheet, NoError,
                     updatedRecord, 0, <<>>)

Client_update(where, argsData) == Client_updateIn(data, where, argsData)

\* SpreadsheetClient.delete
Client_deleteIn(cache, where) ==
    LET index == findRecordByData(cache, where)
    IN  IF index = -1 THEN Outcome(cache, sheet, NotFoundError, EmptyRec, 0, <<>>)
        ELSE Outcome(RemoveAt(cache, index + 1), sheet, NoError, cache[index + 1], 0, <<>>)

Client_delete(where) == Client_deleteIn(data, where)

\* SpreadsheetClient.load
Client_loadEveryRow(sch, hdr, sh) ==
    [i \in 1..(Len(sh) - 1) |-> parseRow(sch, hdr, sh[i + 1])]

Client_load(sch, hdr, sh) ==
    LET dataRows == Tail(getValues(sh))
    IN  [i \in 1..Len(dataRows) |-> parseRow(sch, hdr, dataRows[i])]

\* SpreadsheetClient.save, of an instance whose this.data is cache
Client_saveIn(cache) ==
    LET lastRow == getLastRow(sheet)
        cleared == IF lastRow > 1 THEN clearContent(sheet, 2, lastRow - 1, Len(headers))
                   ELSE sheet
        clearing == IF lastRow > 1 THEN <<Call("clearContent", 2)>> ELSE <<>>
        serializedData == [i \in 1..Len(cache) |-> serializeRow(schema, headers, cache[i])]
    IN  IF Len(cache) > 0
        THEN IF \E i \in 1..Len(cache) : Throws(serializedData[i])
             THEN Outcome(cache, cleared, SerializerError, EmptyRec, 0, clearing)
             ELSE Outcome(cache, setValuesBlock(cleared, 2, serializedData), NoError, EmptyRec,
                          0, Append(clearing, Call("setValues", 2)))
        ELSE Outcome(cache, cleared, NoError, EmptyRec, 0, clearing)

Client_save == Client_saveIn(data)

\* The client's create is not called on a cache of MaxClientRows records or more.
MaxClientRows == 2

\* The sheets a SpreadsheetClient is constructed on.  A sheet may hold a row
\* without content between rows with content.
ClientSheets ==
    << [schema |-> UserSchema, sheet |-> <<<<"ID", "Name">>>>],
       [schema |-> UserSchema,
        sheet |-> <<<<"ID", "Name">>, <<Num(1), Str(<<1>>)>>, <<Num(2), Str(<<2>>)>>>>],
       [schema |-> UserSchema,
        sheet |-> <<<<"Name", "ID", "Memo">>, <<Str(<<1>>), Num(1), Str(<<3>>)>>>>],
       [schema |-> UserSchema,
        sheet |-> <<<<"ID", "Name">>, <<Num(1), Str(<<1>>)>>, <<Str(<<>>), Str(<<>>)>>,
                    <<Num(2), Str(<<2>>)>>>>],
       [schema |-> EventSchema,
        sheet |-> <<<<"ID", "CreatedAt">>, <<Num(1), IsoString(5)>>>>],
       [schema |-> DefaultsSchema, sheet |-> <<<<"ID", "IsActive", "CreatedAt">>>>] >>

\* args.data of the client's create and update
ClientCreateData ==
    CASE schema = EventSchema ->
           << ("id" :> Num(2)) @@ ("createdAt" :> DateOf(6)), ("id" :> Num(2)) >>
      [] schema = DefaultsSchema ->
           << ("id" :> Num(1)), ("id" :> Num(2)) @@ ("isActive" :> Null) >>
      [] OTHER ->
           << ("id" :> Num(1)) @@ ("name" :> Str(<<1>>)),
              ("id" :> Num(2)) @@ ("name" :> Str(<<2>>)) >>
ClientUpdateData ==
    IF schema \in {EventSchema, DefaultsSchema}
    THEN << ("createdAt" :> DateOf(6)) >>
    ELSE << ("name" :> Str(<<2>>)) >>
\* args.where of the client's update and delete: the fields a record must carry
ClientWheres == << ("id" :> Num(1)), ("id" :> Num(2)), EmptyRec >>

\* new SpreadsheetClient({spreadsheetId, sheetName, schema}): validateSchema,
\* initializeSheet, load
ClientConstructed(cfg) ==
    /\ validateSchema(cfg.schema)
    /\ schema = cfg.schema
    /\ primaryKey = getPrimaryKeyField(cfg.schema)
    /\ headers = getValues(cfg.sheet)[1]
    /\ sheet = cfg.sheet
    /\ data = Client_load(cfg.schema, getValues(cfg.sheet)[1], cfg.sheet)
    /\ last = NoCall
    /\ held = NoHeld
    /\ models = NoModels
    /\ peer = NoPeer
    /\ now = 0
    /\ qe = NoQuery

InitClient == \E c \in 1..Len(ClientSheets) : ClientConstructed(ClientSheets[c])

\* the state a call of the client leaves, and the record of the call
ClientDid(opName, where, argsData, out, gens) ==
    /\ data' = out.data
    /\ sheet' = out.sheet
    /\ now' = now + gens
    /\ last' = [op |-> opName, where |-> Where(where), data |-> argsData, err |-> out.err,
                ret |-> out.ret, count |-> out.count, calls |-> out.calls,
                preData |-> data, preSheet |-> sheet, gens |-> gens, find |-> NoFind]
    /\ held' = NoHeld
    /\ UNCHANGED <<peer, models, schema, primaryKey, headers, qe>>

ClientCreate ==
    /\ Len(data) < MaxClientRows
    /\ now < MaxNow
    /\ \E i \in 1..Len(ClientCreateData) :
          ClientDid("client.create", EmptyRec, ClientCreateData[i], Client_create(ClientCreateData[i]),
                    Client_generatorCalls(schema, ClientCreateData[i]))

ClientUpdate ==
    \E w \in 1..Len(ClientWheres), i \in 1..Len(ClientUpdateData) :
        ClientDid("client.update", ClientWheres[w], ClientUpdateData[i],
                  Client_update(ClientWheres[w], ClientUpdateData[i]), 0)

ClientDelete ==
    \E w \in 1..Len(ClientWheres) :
        ClientDid("client.delete", ClientWheres[w], EmptyRec, Client_delete(ClientWheres[w]), 0)

ClientLoad ==
    ClientDid("client.load", EmptyRec, EmptyRec,
              Outcome(Client_load(schema, headers, sheet), sheet, NoError, EmptyRec, 0,
                      <<Call("getValues", 1)>>), 0)

ClientSave == ClientDid("client.save", EmptyRec, EmptyRec, Client_save, 0)

ClientNext == ClientCreate \/ ClientUpdate \/ ClientDelete \/ ClientLoad \/ ClientSave
SpecClient == InitClient /\ [][ClientNext]_vars

\* Only the calls that change the cache: no save() and no load().
SpecClientEdits == InitClient /\ [][ClientCreate \/ ClientUpdate \/ ClientDelete]_vars

\* ------------------------------------------- two clients on one sheet
\* Two SpreadsheetClient instances constructed over the same sheet with the same
\* schema.  data is the cache of instance A and peer.data that of instance B; each
\* call runs from its first statement to its last before the next call starts, and
\* the calls of the two instances come in any order.  peer.ran names the instance
\* that made the last call and peer.was holds B's cache before that call.
Instances == {"A", "B"}
\* Neither of the two calls create on a cache of MaxInstanceRows records or more.
MaxInstanceRows == 1
CacheOf(inst) == IF inst = "A" THEN data ELSE peer.data

\* the sheets the two are constructed on; the last has a blank cell in its date
\* column
TwoClientSheets ==
    << [schema |-> UserSchema, sheet |-> <<<<"ID", "Name">>>>],
       [schema |-> UserSchema,
        sheet |-> <<<<"ID", "Name">>, <<Num(1), Str(<<1>>)>>, <<Num(2), Str(<<2>>)>>>>],
       [schema |-> UserSchema,
        sheet |-> <<<<"Name", "ID", "Memo">>, <<Str(<<1>>), Num(1), Str(<<3>>)>>>>],
       [schema |-> EventSchema,
        sheet |-> <<<<"ID", "CreatedAt">>, <<Num(1), IsoString(5)>>>>],
       [schema |-> EventSchema,
        sheet |-> <<<<"ID", "CreatedAt">>, <<Num(1), IsoString(5)>>, <<Num(2), Str(<<>>)>>>>] >>

\* new SpreadsheetClient(config), twice
InitTwoClients ==
    \E c \in 1..Len(TwoClientSheets) :
        /\ validateSchema(TwoClientSheets[c].schema)
        /\ schema = TwoClientSheets[c].schema
        /\ primaryKey = getPrimaryKeyField(TwoClientSheets[c].schema)
        /\ headers = getValues(TwoClientSheets[c].sheet)[1]
        /\ sheet = TwoClientSheets[c].sheet
        /\ data = Client_load(TwoClientSheets[c].schema, getValues(TwoClientSheets[c].sheet)[1],
                              TwoClientSheets[c].sheet)
        /\ peer = [data |-> Client_load(TwoClientSheets[c].schema,
                                        getValues(TwoClientSheets[c].sheet)[1],
                                        TwoClientSheets[c].sheet),
                   ran |-> "none", was |-> <<>>]
        /\ last = NoCall
        /\ held = NoHeld
        /\ models = NoModels
        /\ now = 0
        /\ qe = NoQuery

\* the state a call of instance inst leaves, and the record of the call
InstanceDid(inst, opName, where, argsData, out, gens) ==
    /\ data' = IF inst = "A" THEN out.data ELSE data
    /\ peer' = [data |-> IF inst = "B" THEN out.data ELSE peer.data,
                ran |-> inst, was |-> peer.data]
    /\ sheet' = out.sheet
    /\ now' = now + gens
    /\ last' = [op |-> opName, where |-> Where(where), data |-> argsData, err |-> out.err,
                ret |-> out.ret, count |-> out.count, calls |-> out.calls,
                preData |-> data, preSheet |-> sheet, gens |-> gens, find |-> NoFind]
    /\ held' = NoHeld
    /\ UNCHANGED <<models, schema, primaryKey, headers, qe>>

InstanceCreate ==
    \E inst \in Instances :
        /\ Len(CacheOf(inst)) < MaxInstanceRows
        /\ now < MaxNow
        /\ \E i \in 1..Len(ClientCreateData) :
              InstanceDid(inst, "client.create", EmptyRec, ClientCreateData[i],
                          Client_createIn(CacheOf(inst), ClientCreateData[i]),
                          Client_generatorCalls(schema, ClientCreateData[i]))

InstanceUpdate ==
    \E inst \in Instances, i \in 1..Len(ClientUpdateData) :
        InstanceDid(inst, "client.update", ClientWheres[1], ClientUpdateData[i],
                    Client_updateIn(CacheOf(inst), ClientWheres[1], ClientUpdateData[i]), 0)

InstanceDelete ==
    \E inst \in Instances, w \in 1..Len(ClientWheres) :
        InstanceDid(inst, "client.delete", ClientWheres[w], EmptyRec,
                    Client_deleteIn(CacheOf(inst), ClientWheres[w]), 0)

InstanceLoad ==
    \E inst \in Instances :
        InstanceDid(inst, "client.load", EmptyRec, EmptyRec,
                    Outcome(Client_load(schema, headers, sheet), sheet, NoError, EmptyRec, 0,
                            <<Call("getValues", 1)>>), 0)

InstanceSave ==
    \E inst \in Instances :
        InstanceDid(inst, "client.save", EmptyRec, EmptyRec, Client_saveIn(CacheOf(inst)), 0)

SpecTwoClients ==
    InitTwoClients
    /\ [][InstanceCreate \/ InstanceUpdate \/ InstanceDelete \/ InstanceLoad \/ InstanceSave]_vars

\* ------------------------------------------- the legacy SpreadSheetMapper
\* The SpreadSheetMapper of src/src/SpreadSheetMapper.ts.  `schema` holds the
\* propertyToColumnMap of the data class: for each decorated property its column
\* name and its parser and serializer (v => v when the decorator has no options).
\*
\* SpreadSheetMapper.mapRowToObject: id is the first cell, then every decorated
\* property whose column the header holds is the parse of its cell
Mapper_mapRowToObject(cols, hdr, row) ==
    LET colIndex(c) == FirstIndex({k \in 1..Len(hdr) : hdr[k] = c.column})
        found == {i \in 1..Len(cols) : colIndex(cols[i]) # -1}
        cell(c) == LET k == colIndex(c) + 1 IN IF k <= Len(row) THEN row[k] ELSE Undef
    IN  [f \in {cols[i].field : i \in found} |->
            LET c == cols[CHOOSE i \in found : cols[i].field = f]
            IN  IF HasParser(c) THEN dateParser(cell(c)) ELSE cell(c)]
        @@ ("id" :> IF Len(row) > 0 THEN row[1] ELSE Undef)

\* SpreadSheetMapper.mapObjectToRow: a column no property is mapped to gets undefined
RECURSIVE Mapper_mapObjectToRow(_, _, _)
Mapper_mapObjectToRow(cols, hdr, obj) ==
    IF hdr = <<>> THEN <<>>
    ELSE LET e == FirstIndex({i \in 1..Len(cols) : cols[i].column = Head(hdr)})
             c == cols[e + 1]
             value == Get(obj, c.field)
             cell == IF e = -1 THEN Undef
                     ELSE IF HasSerializer(c) THEN dateSerializer(value)
                     ELSE value
         IN  <<cell>> \o Mapper_mapObjectToRow(cols, Tail(hdr), obj)

\* SpreadSheetMapper.load
Mapper_load(cols, hdr, sh) ==
    LET rows == Tail(getValues(sh))
    IN  [i \in 1..Len(rows) |-> Mapper_mapRowToObject(cols, hdr, rows[i])]

\* this.data.findIndex(d => d.id === id)
Mapper_findIndex(id) ==
    FirstIndex({i \in 1..Len(data) : StrictEq(Get(data[i], "id"), id)})

\* SpreadSheetMapper.createAndSave
createAndSave(newData) ==
    LET pushed == Append(data, newData)
        values == Mapper_mapObjectToRow(schema, headers, newData)
    IN  IF Mapper_findIndex(Get(newData, "id")) # -1
        THEN Outcome(data, sheet, DuplicateError("id", Get(newData, "id")), EmptyRec, 0, <<>>)
        ELSE IF Throws(values)
        THEN Outcome(pushed, sheet, SerializerError, EmptyRec, 0, <<>>)
        ELSE Outcome(pushed, appendRow(sheet, values), NoError, EmptyRec, 0,
                     <<Call("appendRow", Len(sheet) + 1)>>)

\* SpreadSheetMapper.updateAndSave
updateAndSave(newData) ==
    LET targetIndex == Mapper_findIndex(Get(newData, "id"))
        stored == [data EXCEPT ![targetIndex + 1] = newData]
        values == Mapper_mapObjectToRow(schema, headers, newData)
    IN  IF targetIndex = -1 THEN Outcome(data, sheet, NotFoundError, EmptyRec, 0, <<>>)
        ELSE IF Throws(values) THEN Outcome(stored, sheet, SerializerError, EmptyRec, 0, <<>>)
        ELSE Outcome(stored, setValues(sheet, targetIndex + 2, values), NoError, EmptyRec, 0,
                     <<Call("setValues", targetIndex + 2)>>)

\* SpreadSheetMapper.deleteAndSave
deleteAndSave(id) ==
    LET targetIndex == Mapper_findIndex(id)
    IN  IF targetIndex = -1 THEN Outcome(data, sheet, NotFoundError, EmptyRec, 0, <<>>)
        ELSE Outcome(RemoveAt(data, targetIndex + 1), deleteRow(sheet, targetIndex + 2),
                     NoError, EmptyRec, 0, <<Call("deleteRow", targetIndex + 2)>>)

\* The data classes: the README's User cut to id and name, and to id and the
\* createdAt property with its parser and serializer.
UserClass ==
    <<Col("id", "ID", FALSE, "none", Undef), Col("name", "Name", FALSE, "none", Undef)>>
EventClass ==
    <<Col("id", "ID", FALSE, "none", Undef),
      Col("createdAt", "CreatedAt", FALSE, "date", Undef)>>
\* The sheets a SpreadSheetMapper is constructed on: the ids of the rows are pairwise
\* distinct, the header holds the columns of the class in any order, and a cell may
\* be blank.
MapperSheets ==
    << [schema |-> UserClass, sheet |-> <<<<"ID", "Name">>>>],
       [schema |-> UserClass,
        sheet |-> <<<<"ID", "Name">>, <<Num(1), Str(<<1>>)>>, <<Num(2), Str(<<2>>)>>>>],
       [schema |-> UserClass,
        sheet |-> <<<<"Name", "ID">>, <<Str(<<1>>), Num(1)>>, <<Str(<<>>), Num(2)>>>>],
       [schema |-> EventClass,
        sheet |-> <<<<"ID", "CreatedAt">>, <<Num(1), IsoString(5)>>>>],
       [schema |-> EventClass,
        sheet |-> <<<<"ID", "CreatedAt">>, <<Num(1), IsoString(5)>>, <<Num(2), Str(<<>>)>>>>] >>
\* newData of createAndSave and updateAndSave, and the ids of deleteAndSave
MapperNewData ==
    IF schema = EventClass
    THEN << ("id" :> Num(1)) @@ ("createdAt" :> DateOf(6)),
            ("id" :> Num(3)) @@ ("createdAt" :> DateOf(7)) >>
    ELSE << ("id" :> Num(1)) @@ ("name" :> Str(<<3>>)),
            ("id" :> Num(2)) @@ ("name" :> Str(<<2>>)),
            ("id" :> Num(3)) @@ ("name" :> Str(<<1>>)) >>
MapperIds == <<Num(1), Num(2), Num(3)>>

\* new SpreadSheetMapper(spreadSheetId, sheetName, target)
InitMapper ==
    \E c \in 1..Len(MapperSheets) :
        /\ schema = MapperSheets[c].schema
        /\ primaryKey = "id"
        /\ headers = getValues(MapperSheets[c].sheet)[1]
        /\ sheet = MapperSheets[c].sheet
        /\ data = Mapper_load(MapperSheets[c].schema, getValues(MapperSheets[c].sheet)[1],
                              MapperSheets[c].sheet)
        /\ last = NoCall
        /\ held = NoHeld
        /\ models = NoModels
        /\ peer = NoPeer
        /\ now = 0
        /\ qe = NoQuery

CreateAndSave ==
    /\ Len(data) < MaxRows
    /\ \E i \in 1..Len(MapperNewData) :
          Did("createAndSave", NoWhere, MapperNewData[i], createAndSave(MapperNewData[i]))

UpdateAndSave ==
    \E i \in 1..Len(MapperNewData) :
        Did("updateAndSave", NoWhere, MapperNewData[i], updateAndSave(MapperNewData[i]))

DeleteAndSave ==
    \E i \in 1..Len(MapperIds) :
        Did("deleteAndSave", NoWhere, ("id" :> MapperIds[i]), deleteAndSave(MapperIds[i]))

SpecMapper == InitMapper /\ [][CreateAndSave \/ UpdateAndSave \/ DeleteAndSave]_vars

\* ------------------------------------------------ the registry on its own
\* the schemas of schemas a client is constructed with: their table names in
\* Object.entries order
TableSets ==
    << <<>>, <<"user">>, <<"post">>, <<"user", "post">>, <<"post", "user">>,
       <<"user", "post", "order">> >>
\* the names asked for: table names, a name no schema declares, and names that
\* every object inherits
TableNames == {"user", "post", "order", "ghost"} \cup ObjectPrototype

\* new SpreadsheetClient({spreadsheetId, schema}), every table having its sheet
InitRegistry ==
    \E c \in 1..Len(TableSets) :
        /\ models = initializeModels(TableSets[c])
        /\ peer = NoPeer
        /\ schema = <<>>
        /\ primaryKey = NoPrimaryKey
        /\ headers = <<>>
        /\ sheet = <<>>
        /\ data = <<>>
        /\ last = NoCall
        /\ held = NoHeld
        /\ now = 0
        /\ qe = NoQuery

\* an access by name: the registry stays, the call is recorded
Accessed(opName, name, result) ==
    /\ last' = [NoCall EXCEPT !.op = opName, !.data = ("tableName" :> name), !.ret = result,
                               !.count = models.built]
    /\ UNCHANGED <<peer, models, schema, primaryKey, headers, sheet, data, qe, held, now>>

RegistryGet ==
    \E name \in TableNames : Accessed("client.get", name, SpreadsheetClient_get(name))
ProxyGet ==
    \E name \in TableNames : Accessed("proxy.get", name, createSpreadsheetClient_get(name))
ModelsProxyGet ==
    \E name \in TableNames : Accessed("models.get", name, ModelsProxy_get(name))

SpecRegistry == InitRegistry /\ [][RegistryGet \/ ProxyGet \/ ModelsProxyGet]_vars

\* ------------------------------------------------ the row mappers on their own
\* A row mapped to a record, the record mapped back to a row, and that row mapped to
\* a record again, by the mapper of TableModel or of the cache-only SpreadsheetClient.
\* sheet[2] is the row, data[1] its record, sheet[3] the row of the record and
\* data[2] the record of that row.
Mappers == {"TableModel", "SpreadsheetClient", "SpreadSheetMapper"}
rowToRecord(mapper, row) ==
    IF mapper = "TableModel" THEN mapRowToObject(schema, headers, row)
    ELSE IF mapper = "SpreadSheetMapper" THEN Mapper_mapRowToObject(schema, headers, row)
    ELSE parseRow(schema, headers, row)
recordToRow(mapper, record) ==
    IF mapper = "TableModel" THEN mapObjectToRow(schema, headers, record)
    ELSE IF mapper = "SpreadSheetMapper" THEN Mapper_mapObjectToRow(schema, headers, record)
    ELSE serializeRow(schema, headers, record)

\* the schemas and header rows: the schema's labels, reordered, with columns the
\* schema does not map, and without one of the schema's labels
Layouts ==
    << [schema |-> UserSchema, headers |-> <<"ID", "Name">>],
       [schema |-> UserSchema, headers |-> <<"Name", "ID", "Memo">>],
       [schema |-> UserSchema, headers |-> <<"ID">>],
       [schema |-> EventSchema, headers |-> <<"ID", "CreatedAt">>],
       [schema |-> EventSchema, headers |-> <<"CreatedAt", "Extra", "ID">>] >>
\* the cells of a row: a number, a text, a blank cell, an ISO date text, a date
Cells == {Num(1), Str(<<1>>), Str(<<>>), IsoString(5), DateOf(5)}

InitRows ==
    \E l \in 1..Len(Layouts) : \E row \in [1..Len(Layouts[l].headers) -> Cells] :
        /\ schema = Layouts[l].schema
        /\ primaryKey = setupColumnMap(Layouts[l].schema)
        /\ headers = Layouts[l].headers
        /\ sheet = <<Layouts[l].headers, row>>
        /\ data = <<>>
        /\ last = NoCall
        /\ held = NoHeld
        /\ models = NoModels
        /\ peer = NoPeer
        /\ now = 0
        /\ qe = NoQuery

RowToRecord ==
    /\ last.op = "new"
    /\ \E mapper \in Mappers :
          /\ data' = <<rowToRecord(mapper, sheet[2])>>
          /\ last' = [NoCall EXCEPT !.op = "rowToRecord", !.calls = <<Call(mapper, 2)>>,
                                     !.preData = data, !.preSheet = sheet]
    /\ UNCHANGED <<peer, models, schema, primaryKey, headers, sheet, qe, held, now>>

RecordToRow ==
    /\ last.op = "rowToRecord"
    /\ LET values == recordToRow(last.calls[1].fn, data[1])
       IN  /\ sheet' = Append(sheet, values)
           /\ last' = [last EXCEPT !.op = "recordToRow",
                                   !.err = IF Throws(values) THEN SerializerError
                                           ELSE NoError]
    /\ UNCHANGED <<peer, models, schema, primaryKey, headers, data, qe, held, now>>

RowToRecordAgain ==
    /\ last.op = "recordToRow"
    /\ last.err = NoError
    /\ data' = Append(data, rowToRecord(last.calls[1].fn, sheet[3]))
    /\ last' = [last EXCEPT !.op = "rowToRecordAgain"]
    /\ UNCHANGED <<peer, models, schema, primaryKey, headers, sheet, qe, held, now>>

SpecRows == InitRows /\ [][RowToRecord \/ RecordToRow \/ RowToRecordAgain]_vars

\* ------------------------------------------------ the QueryEngine on its own
\* The cap on the length of the record list a QueryEngine is built over.
MaxQLen == 2

\* the records a QueryEngine is built over
QItems ==
    << ("age" :> Num(1)) @@ ("name" :> Str(<<1, 2>>)),
       ("age" :> Num(2)) @@ ("name" :> Str(<<1>>)),
       ("age" :> Num(3)) @@ ("name" :> Str(<<2>>)),
       ("name" :> Str(<<1>>)),
       ("age" :> Null) @@ ("name" :> Str(<<2>>)),
       ("age" :> Str(<<1>>)) @@ ("name" :> Str(<<1>>)),
       ("age" :> Num(0)) @@ ("name" :> Str(<<1>>)),
       ("age" :> Bool(FALSE)) @@ ("name" :> Str(<<2>>)),
       ("age" :> Str(<<>>)) @@ ("name" :> Str(<<1>>)) >>

\* the where conditions given to it
QWheres ==
    << NoWhere,
       Where([f \in {} |-> Lit(Undef)]),
       Where("age" :> Lit(Num(2))),
       Where("name" :> Lit(Str(<<1>>))),
       Where(("age" :> Lit(Num(2))) @@ ("name" :> Lit(Str(<<1>>)))),
       Where("age" :> Pred("gte" :> One(Num(2)))),
       Where("age" :> Pred(("gte" :> One(Num(2))) @@ ("lte" :> One(Num(2))))),
       Where("age" :> Pred(("equals" :> One(Num(1))) @@ ("gt" :> One(Num(1))))),
       Where(("age" :> Pred("gte" :> One(Num(2))))
             @@ ("name" :> Pred("startsWith" :> One(Str(<<1>>))))),
       Where("name" :> Pred("contains" :> One(Str(<<2>>)))),
       Where("age" :> Pred("in" :> Arr(<<Num(1), Num(3)>>))),
       Where("age" :> Lit(Null)),
       Where("age" :> Pred("not" :> One(Num(2)))),
       Where("age" :> Pred(("gt" :> One(Num(1))) @@ ("lt" :> One(Num(3))))),
       Where("age" :> Pred("startsWith" :> One(Str(<<1>>)))),
       Where("age" :> Lit(Undef)),
       Where("age" :> Pred("equals" :> One(Num(2)))),
       Where("name" :> Pred("equals" :> One(Str(<<1>>)))),
       Where("age" :> Pred("notIn" :> Arr(<<Num(1), Null, Str(<<1>>)>>))),
       Where("age" :> Pred("in" :> Arr(<<Num(0), Undef>>))),
       Where("age" :> Pred("not" :> One(Null))),
       Where(("age" :> Lit(Null)) @@ ("name" :> Lit(Str(<<2>>)))) >>

\* new QueryEngine(records), about to be asked filter(where)
InitQE ==
    /\ schema = UserSchema
    /\ primaryKey = setupColumnMap(UserSchema)
    /\ headers = Sheets[1].sheet[1]
    /\ sheet = Sheets[1].sheet
    /\ data = <<>>
    /\ last = NoCall
    /\ held = NoHeld
    /\ models = NoModels
    /\ peer = NoPeer
    /\ now = 0
    /\ \E n \in 0..MaxQLen :
        \E pick \in [1..n -> 1..Len(QItems)], w \in 1..Len(QWheres) :
            qe = [NoQuery EXCEPT !.data = [i \in 1..n |-> QItems[pick[i]]],
                                 !.where = QWheres[w], !.pc = "new"]

\* engine.filter(where)
QFilter ==
    /\ qe.pc = "new"
    /\ qe' = [qe EXCEPT !.result = filter(qe.data, qe.where), !.pc = "filtered"]
    /\ UNCHANGED <<peer, models, schema, primaryKey, headers, sheet, data, last, held, now>>

SpecQE == InitQE /\ [][QFilter]_vars

\* the take and skip given to paginate
Takes == <<Undef, Num(-1), Num(0), Num(1), Num(2), Num(3)>>
Skips == <<Undef, Num(0), Num(1), Num(2), Num(3)>>

\* new QueryEngine(records), about to be asked paginate(take, skip)
InitPage ==
    /\ schema = UserSchema
    /\ primaryKey = setupColumnMap(UserSchema)
    /\ headers = Sheets[1].sheet[1]
    /\ sheet = Sheets[1].sheet
    /\ data = <<>>
    /\ last = NoCall
    /\ held = NoHeld
    /\ models = NoModels
    /\ peer = NoPeer
    /\ now = 0
    /\ \E n \in 0..MaxQLen :
        \E pick \in [1..n -> 1..Len(QItems)], t \in 1..Len(Takes), k \in 1..Len(Skips) :
            qe = [NoQuery EXCEPT !.data = [i \in 1..n |-> QItems[pick[i]]],
                                 !.take = Takes[t], !.skip = Skips[k], !.pc = "new"]

\* engine.paginate(take, skip)
QPaginate ==
    /\ qe.pc = "new"
    /\ qe' = [qe EXCEPT !.result = paginate(qe.data, qe.take, qe.skip), !.pc = "paginated"]
    /\ UNCHANGED <<peer, models, schema, primaryKey, headers, sheet, data, last, held, now>>

SpecPage == InitPage /\ [][QPaginate]_vars

\* The cap on the length of the record list a QueryEngine sorts.
MaxSortLen == 3

\* the records it sorts: age holds numbers, a string of digits, null, or is absent
SortItems ==
    << ("age" :> Num(9)) @@ ("name" :> Str(<<20>>)),
       ("age" :> Num(10)) @@ ("name" :> Str(<<21>>)),
       ("age" :> Str(<<5>>)) @@ ("name" :> Str(<<20>>)),
       ("age" :> Null) @@ ("name" :> Str(<<21>>)),
       ("name" :> Str(<<21>>)),
       ("age" :> Null) @@ ("name" :> Null) >>

\* the orderBy given to sort
OrderBys ==
    << NoOrderBy,
       OrderBy(<<>>),
       OrderBy(<<By("age", "asc")>>),
       OrderBy(<<By("age", "desc")>>),
       OrderBy(<<By("name", "asc"), By("age", "desc")>>),
       OrderBy(<<By("age", "asc"), By("name", "desc")>>) >>

\* new QueryEngine(records), about to be asked sort(orderBy)
InitSort ==
    /\ schema = UserSchema
    /\ primaryKey = setupColumnMap(UserSchema)
    /\ headers = Sheets[1].sheet[1]
    /\ sheet = Sheets[1].sheet
    /\ data = <<>>
    /\ last = NoCall
    /\ held = NoHeld
    /\ models = NoModels
    /\ peer = NoPeer
    /\ now = 0
    /\ \E n \in 0..MaxSortLen :
        \E pick \in [1..n -> 1..Len(SortItems)], o \in 1..Len(OrderBys) :
            qe = [NoQuery EXCEPT !.data = [i \in 1..n |-> SortItems[pick[i]]],
                                 !.orderBy = OrderBys[o], !.pc = "new"]

\* engine.sort(orderBy)
QSort ==
    /\ qe.pc = "new"
    /\ \E sorted \in sort(qe.data, qe.orderBy) :
          qe' = [qe EXCEPT !.result = sorted, !.pc = "sorted"]
    /\ UNCHANGED <<peer, models, schema, primaryKey, headers, sheet, data, last, held, now>>

\* new QueryEngine(result).sort(orderBy): the result sorted once more
QSortAgain ==
    /\ qe.pc = "sorted"
    /\ \E sorted \in sort(qe.result, qe.orderBy) :
          qe' = [qe EXCEPT !.again = sorted, !.pc = "resorted"]
    /\ UNCHANGED <<peer, models, schema, primaryKey, headers, sheet, data, last, held, now>>

SpecSort == InitSort /\ [][QSort \/ QSortAgain]_vars

\* ------------------------------------------------------------------ claims
\* every field of the where holds of the record
MatchesAll(item, w) == \A key \in DOMAIN w : matchesField(item, key, w[key])
\* the positions (from 1) of the records of recs that the where selects
Matching(recs, where) ==
    {i \in 1..Len(recs) : ~where.present \/ MatchesAll(recs[i], where.cond)}
\* the first of them
FirstMatching(recs, where) ==
    CHOOSE i \in Matching(recs, where) : \A j \in Matching(recs, where) : i <= j
\* the records at the positions in keep, in their order in recs
RECURSIVE Kept(_, _, _)
Kept(recs, keep, from) ==
    IF from > Len(recs) THEN <<>>
    ELSE (IF from \in keep THEN <<recs[from]>> ELSE <<>>) \o Kept(recs, keep, from + 1)
\* the key cells of the sheet's data rows
KeyColumn ==
    CHOOSE k \in 1..Len(headers) :
        \E i \in 1..Len(schema) : schema[i].field = primaryKey /\ schema[i].column = headers[k]
Returned == last.err = NoError

\* C1: from a table loaded from a header row alone, after any sequence of create
\* calls, no two records of the cache carry the same primary-key value.
\* (SpecCreate)
C1_NoSharedKeyAfterCreates ==
    \A i, j \in 1..Len(data) :
        i # j => Get(data[i], primaryKey) # Get(data[j], primaryKey)

\* C2: a create whose data, after defaults, has a primary-key value that a cached
\* record already carries throws the error naming that value, and leaves the cache
\* and the sheet as they were: no push, no appendRow.
C2_DuplicateCreateRejected ==
    LET newData == applyDefaults(schema, last.data)
        key == Get(newData, primaryKey)
    IN  (/\ last.op = "create"
         /\ key # Undef
         /\ \E i \in 1..Len(last.preData) : Get(last.preData[i], primaryKey) = key)
        => /\ last.err = [kind |-> "duplicate", field |-> primaryKey, value |-> key]
           /\ data = last.preData
           /\ sheet = last.preSheet
           /\ last.calls = <<>>

\* C2's case: a create on a non-empty cache was refused as a duplicate
C2_Witness ==
    /\ last.op = "create"
    /\ last.err.kind = "duplicate"
    /\ Len(data) >= 2

\* C3: from a sheet with pairwise distinct key cells, after any sequence of
\* successful create, update, delete and deleteMany calls, the key cells of the
\* data rows, and the keys of the cached records, are pairwise distinct.
\* (SpecOk)
C3_KeysStayDistinct ==
    /\ \A i, j \in 1..Len(data) :
          i # j => Get(data[i], primaryKey) # Get(data[j], primaryKey)
    /\ \A i, j \in 2..Len(sheet) :
          i # j => sheet[i][KeyColumn] # sheet[j][KeyColumn]

\* C4: no sheet call failing, after construction and after every create, update,
\* delete and deleteMany call, returned or thrown, the sheet has as many data rows
\* as the cache has records, and physical row i+2 is mapObjectToRow(cache[i]).
\* (SpecMapped)
C4_WriteThrough ==
    /\ Len(sheet) - 1 = Len(data)
    /\ \A i \in 1..Len(data) :
          i + 1 <= Len(sheet) => sheet[i + 1] = mapObjectToRow(schema, headers, data[i])

\* C5: update and delete with a where that no cached record matches throw the
\* not-found error and leave the cache and the sheet as they were.
C5_NoMatchIsNotFound ==
    (/\ last.op \in {"update", "delete"}
     /\ Matching(last.preData, last.where) = {})
    => /\ last.err = [kind |-> "notfound", field |-> "", value |-> Undef]
       /\ data = last.preData
       /\ sheet = last.preSheet
       /\ last.calls = <<>>

\* C5's case: an update found none of the cached records
C5_Witness ==
    /\ last.op = "update"
    /\ last.err.kind = "notfound"
    /\ Len(data) >= 1
    /\ DOMAIN last.where.cond # {}

\* C6: a successful update replaces the first cached record that matches the where,
\* at its own position p, by the merge of that record and the data; the cache keeps
\* its length and every other position, and the only sheet call writes row p+2.
C6_UpdateInPlace ==
    (last.op = "update" /\ Returned)
    => LET p == FirstMatching(last.preData, last.where)
       IN  /\ Len(data) = Len(last.preData)
           /\ data[p] = Spread(last.preData[p], last.data)
           /\ \A i \in 1..Len(data) : i # p => data[i] = last.preData[i]
           /\ last.calls = <<[fn |-> "setValues", row |-> p + 1]>>

\* C7: a successful delete removes from the cache the first record that matches the
\* where, which is the record it returns, keeps the others in their order, and
\* deletes the physical row that held it.
C7_DeleteFirstMatch ==
    (last.op = "delete" /\ Returned)
    => LET p == FirstMatching(last.preData, last.where)
       IN  /\ last.ret = last.preData[p]
           /\ data = Kept(last.preData, (1..Len(last.preData)) \ {p}, 1)
           /\ sheet = Kept(last.preSheet, (1..Len(last.preSheet)) \ {p + 1}, 1)

\* C8: deleteMany leaves as the cache the records that did not match the where, in
\* their order, and returns the number of records that matched, which is the
\* decrease of the cache's length; with no where it removes every record.
C8_DeleteManyRemovesMatches ==
    (last.op = "deleteMany")
    => LET m == Matching(last.preData, last.where)
       IN  /\ data = Kept(last.preData, (1..Len(last.preData)) \ m, 1)
           /\ last.count = Cardinality(m)
           /\ last.count = Len(last.preData) - Len(data)
           /\ ~last.where.present => (data = <<>> /\ last.count = Len(last.preData))

\* C9: filter(where) returns, in the order of the input, the records for which
\* every field of the where matches; all of them when the where is empty or absent.
\* (SpecQE)
C9_FilterIsConjunction ==
    (qe.pc = "filtered")
    => /\ qe.result = Kept(qe.data, Matching(qe.data, qe.where), 1)
       /\ (~qe.where.present \/ DOMAIN qe.where.cond = {}) => qe.result = qe.data

\* C9's case: a where over two fields kept one record and dropped another that
\* matches one of the two fields
C9_Witness ==
    /\ qe.pc = "filtered"
    /\ Cardinality(DOMAIN qe.where.cond) = 2
    /\ Len(qe.result) = 1
    /\ \E i \in 1..Len(qe.data) :
          /\ \E k \in DOMAIN qe.where.cond : matchesField(qe.data[i], k, qe.where.cond[k])
          /\ \E k \in DOMAIN qe.where.cond : ~matchesField(qe.data[i], k, qe.where.cond[k])

\* C10: when one field's predicate object carries several operator keys, a record
\* matches only if each of these operators, taken alone, holds of its value.
\* (SpecQE)
C10_OperatorsAreAnded ==
    (qe.pc = "filtered" /\ qe.where.present)
    => \A i \in 1..Len(qe.result) : \A k \in DOMAIN qe.where.cond :
          LET c == qe.where.cond[k]
          IN  c.kind = "obj" =>
                \A o \in DOMAIN c.ops :
                    evaluateCondition(Get(qe.result[i], k), o :> c.ops[o])

\* the operator keys that order, and those that test text
OrderingOps == {"lt", "lte", "gt", "gte"}
TextOps == {"contains", "startsWith", "endsWith"}

\* C11: a record whose value for a field is neither a number nor a date is not in
\* the result of a filter whose predicate for that field has an ordering operator,
\* and a record whose value is no string is not in the result of one whose
\* predicate has a text operator.
\* (SpecQE)
C11_FailsClosedOnTypeMismatch ==
    (qe.pc = "filtered" /\ qe.where.present)
    => \A i \in 1..Len(qe.data) : \A k \in DOMAIN qe.where.cond :
          LET c == qe.where.cond[k]
              value == Get(qe.data[i], k)
          IN  (/\ c.kind = "obj"
               /\ \/ (DOMAIN c.ops \cap OrderingOps # {} /\ value.t \notin {"number", "date"})
                  \/ (DOMAIN c.ops \cap TextOps # {} /\ value.t # "string"))
              => \A j \in 1..Len(qe.result) : qe.result[j] # qe.data[i]
\* the smaller of two integers
Min(a, b) == IF a < b THEN a ELSE b
Max(a, b) == IF a < b THEN b ELSE a

\* C12: paginate with an integer take k and a skip s >= 0 returns
\* max(0, min(k, len(R) - s)) records, and none when s >= len(R) or k <= 0.
\* (SpecPage)
C12_PaginationBounds ==
    (qe.pc = "paginated" /\ qe.take.t = "number" /\ qe.skip.t = "number" /\ qe.skip.n >= 0)
    => /\ Len(qe.result) = Max(0, Min(qe.take.n, Len(qe.data) - qe.skip.n))
       /\ (qe.skip.n >= Len(qe.data) \/ qe.take.n <= 0) => qe.result = <<>>
Count(recs, r) == Cardinality({i \in 1..Len(recs) : recs[i] = r})
\* one key's comparison of two records, in the key's direction
KeyOrder(a, b, by) ==
    LET c == compareValues(Get(a, by.key), Get(b, by.key))
    IN  IF by.dir = "desc" THEN -c ELSE c
\* the two records compare equal on every key
TiesOnAll(a, b, keys) == \A k \in 1..Len(keys) : KeyOrder(a, b, keys[k]) = 0
\* a comes before b in the lexicographic order of the keys: some key puts a first
\* and every earlier key compares them equal
LexBefore(a, b, keys) ==
    \E k \in 1..Len(keys) :
        /\ KeyOrder(a, b, keys[k]) < 0
        /\ \A j \in 1..(k - 1) : KeyOrder(a, b, keys[j]) = 0
\* what C14 says of a sorted list
SortedAsClaimed(recs, result, orderBy) ==
    /\ Len(result) = Len(recs)
    /\ \A i \in 1..Len(recs) : Count(result, recs[i]) = Count(recs, recs[i])
    /\ \A i, j \in 1..Len(result) : i < j => ~LexBefore(result[j], result[i], orderBy.keys)
    /\ \A i \in 1..Len(recs) :
          SelectSeq(result, LAMBDA r : TiesOnAll(r, recs[i], orderBy.keys))
            = SelectSeq(recs, LAMBDA r : TiesOnAll(r, recs[i], orderBy.keys))
    /\ orderBy.keys = <<>> => result = recs

\* C14: sort returns a permutation of its input in the lexicographic order of the
\* orderBy keys, a later key deciding only between records that all earlier keys
\* compare equal; records equal on every key keep their relative order; with an
\* empty orderBy the order is the input's.
\* (SpecSort)
C14_SortIsStableLexicographic ==
    (qe.pc = "sorted") => SortedAsClaimed(qe.data, qe.result, qe.orderBy)

\* C14, amended: the same, for the lists on whose records sort's comparison is a
\* consistent ordering (each sort field holding, apart from null and absent values,
\* only numbers or only strings).
C14_SortIsStableLexicographicWhenConsistent ==
    (qe.pc = "sorted" /\ IsConsistentComparator(qe.data, qe.orderBy.keys))
    => SortedAsClaimed(qe.data, qe.result, qe.orderBy)

\* C14's case: a sort by two keys moved a record; two records that the first key
\* compares equal were ordered by the second, and two different records equal on
\* both keys kept their order
C14_Witness ==
    /\ qe.pc = "sorted"
    /\ Len(qe.orderBy.keys) = 2
    /\ qe.result # qe.data
    /\ \E i, j \in 1..Len(qe.result) :
          /\ i < j
          /\ KeyOrder(qe.result[i], qe.result[j], qe.orderBy.keys[1]) = 0
          /\ KeyOrder(qe.result[i], qe.result[j], qe.orderBy.keys[2]) < 0
    /\ \E i, j \in 1..Len(qe.result) :
          /\ i < j
          /\ qe.result[i] # qe.result[j]
          /\ TiesOnAll(qe.result[i], qe.result[j], qe.orderBy.keys)
\* in a list sorted by the key, no record with a concrete value for it comes before
\* one whose value is null or absent when the direction is asc, and none after one
\* when it is desc
NullsPlaced(recs, by) ==
    \A i, j \in 1..Len(recs) :
        i < j => LET first == IF by.dir = "desc" THEN recs[j] ELSE recs[i]
                     second == IF by.dir = "desc" THEN recs[i] ELSE recs[j]
                 IN  ~(~IsNullish(Get(first, by.key)) /\ IsNullish(Get(second, by.key)))

\* C15: sort by a first key of direction asc puts every record whose value for the
\* key is null or absent before every record with a concrete value, and direction
\* desc puts them after; a second key is placed by its own direction, whatever the
\* first key's: among the records the first key leaves tied by their null or absent
\* value, the second key's nulls come first when it is asc and last when it is desc.
\* (SpecSort)
C15_NullsFirstPerKeyDirection ==
    (qe.pc = "sorted" /\ qe.orderBy.keys # <<>>)
    => LET keys == qe.orderBy.keys
           tied == SelectSeq(qe.result, LAMBDA r : IsNullish(Get(r, keys[1].key)))
       IN  /\ NullsPlaced(qe.result, keys[1])
           /\ Len(keys) >= 2 => NullsPlaced(tied, keys[2])

\* C15's case: a sort by an asc and a desc key moved records; the first key has
\* null and concrete values, and so has the second among the first key's nulls
C15_Witness ==
    /\ qe.pc = "sorted"
    /\ Len(qe.orderBy.keys) = 2
    /\ qe.orderBy.keys[1].dir # qe.orderBy.keys[2].dir
    /\ qe.result # qe.data
    /\ \E i, j, k \in 1..Len(qe.result) :
          /\ ~IsNullish(Get(qe.result[i], qe.orderBy.keys[1].key))
          /\ IsNullish(Get(qe.result[j], qe.orderBy.keys[1].key))
          /\ IsNullish(Get(qe.result[k], qe.orderBy.keys[1].key))
          /\ IsNullish(Get(qe.result[j], qe.orderBy.keys[2].key))
          /\ ~IsNullish(Get(qe.result[k], qe.orderBy.keys[2].key))
\* C16: what a read returns is not aliased to the cache: after the caller has pushed
\* to, popped from or set a field in the value a read returned, the cache is as it
\* was when the read returned.
\* (SpecRead)
C16_ReadsAreNotAliased ==
    held.touched => data = held.seen
\* the columns of the schema flagged primary
PrimaryColumns == {i \in 1..Len(schema) : schema[i].primary}

\* C17: a table model whose schema flags no column or several columns primary does
\* not come to be: its construction throws, before the sheet is read, so that there
\* is no model with a loaded cache and no call on one.
\* (SpecInvalid)
C17_InvalidSchemaRejected ==
    (Cardinality(PrimaryColumns) # 1)
    => /\ last.op = "new"
       /\ last.err.kind # "none"
       /\ data = <<>>

\* C18: the record a create returns holds, for every column that declares a default,
\* the default when the value supplied for the field is null or absent (a generated
\* date when the default is a generator), and else the value supplied; and every
\* other non-null value supplied, unchanged.
\* (SpecDefaults)
C18_DefaultsFillNullAndAbsent ==
    (last.op = "create" /\ Returned)
    => /\ \A i \in 1..Len(schema) :
            LET c == schema[i]
                supplied == Get(last.data, c.field)
                created == Get(last.ret, c.field)
            IN  c.default # Undef =>
                  IF IsNullish(supplied)
                  THEN IF c.default = Generator THEN created.t = "date" ELSE created = c.default
                  ELSE created = supplied
       /\ \A f \in DOMAIN last.data :
            ~IsNullish(last.data[f]) => Get(last.ret, f) = last.data[f]
\* the columns whose default is a generator
GeneratorColumns == {i \in 1..Len(schema) : schema[i].default = Generator}

\* C19: a create call that supplies no null value calls the generator once for each
\* generator column whose field it omits, whether it returns or throws, and not for
\* a field it supplies; the value stored is the one read at that call, not an
\* earlier one.
\* (SpecDefaults)
C19_GeneratorCalledPerCreate ==
    (/\ last.op = "create"
     /\ \A f \in DOMAIN last.data : ~IsNullish(last.data[f]))
    => LET omitted == {i \in GeneratorColumns : schema[i].field \notin DOMAIN last.data}
       IN  /\ last.gens = Cardinality(omitted)
           /\ \A i \in omitted :
                 Returned => last.ret[schema[i].field] = DateOf(now - 1)
           /\ \A i \in GeneratorColumns \ omitted :
                 Returned => last.ret[schema[i].field] = last.data[schema[i].field]

\* C19's case: a second create that omits the generated field has read the time
\* anew, the cache holding two records with different generated dates
C19_Witness ==
    /\ last.op = "create"
    /\ Returned
    /\ "createdAt" \notin DOMAIN last.data
    /\ now >= 2
    /\ \E i \in 1..Len(last.preData) :
          /\ Get(last.preData[i], "createdAt").t = "date"
          /\ Get(last.preData[i], "createdAt") # last.ret["createdAt"]
          /\ Get(last.preData[i], "createdAt").n < now

\* the where that equals the fields supplied to create
WhereOf(argsData) == Where([f \in DOMAIN argsData |-> Lit(argsData[f])])

\* C20: a create that returns leaves the cache as it was with the record returned
\* appended, and the sheet as it was with the record's row appended; a findMany
\* whose where equals the fields supplied then returns an array holding the record.
C20_CreateAppends ==
    (last.op = "create" /\ Returned)
    => /\ data = Append(last.preData, last.ret)
       /\ sheet = Append(last.preSheet, mapObjectToRow(schema, headers, last.ret))
       /\ \A r \in findMany([NoFind EXCEPT !.where = WhereOf(last.data)]) :
             \E i \in 1..Len(r.recs) : r.recs[i] = last.ret @@ ("@" :> Num(Len(data)))

\* C20's case: a create supplying two fields returned, on a table that held records
C20_Witness ==
    /\ last.op = "create"
    /\ Returned
    /\ Cardinality(DOMAIN last.data) = 2
    /\ Len(last.preData) >= 1
    /\ Len(last.preSheet) >= 2

\* filter, then sort, then paginate, each left out when its argument is absent: the
\* arrays of the records of recs that the composition can give
Composed(recs, args) ==
    LET filtered == IF args.where.present THEN filter(recs, args.where) ELSE recs
        sorted == IF args.orderBy.present THEN sort(filtered, args.orderBy) ELSE {filtered}
    IN  {IF args.take = Undef /\ args.skip = Undef THEN r
         ELSE paginate(r, args.take, args.skip) : r \in sorted}

\* C21: findMany(args) returns paginate(sort(filter(cache, where), orderBy), take,
\* skip), an absent argument leaving its step out, and count(args) returns the
\* length of such an array.
C21_FindManyIsFilterSortPaginate ==
    /\ (last.op = "findMany" /\ ~held.touched)
          => held.recs \in Composed(last.preData, last.find)
    /\ last.op = "count"
          => \E r \in Composed(last.preData, last.find) : last.count = Len(r)

\* a findMany that filtered, sorted and cut a cache of several records, and a count
\* of a filtered cache
C21_Witness ==
    /\ last.op = "findMany"
    /\ ~held.touched
    /\ Len(last.preData) >= 2
    /\ last.find.orderBy.present
    /\ last.find.orderBy.keys # <<>>
    /\ Truthy(last.find.take)
    /\ Len(held.recs) = 1
    /\ held.refs # <<1>>

\* C22: findUnique and findFirst give the same result for the same where and cache:
\* the first record in cache order that matches, or null when none matches, and
\* never an error.
C22_FindUniqueIsFindFirst ==
    /\ \A w \in 1..Len(WhereArgs) :
          findUnique(WhereArgs[w].cond) = TableModel_findFirst(WhereArgs[w].cond)
    /\ last.op \in {"findUnique", "findFirst"} =>
          /\ last.err = NoError
          /\ IF Matching(last.preData, last.where) = {}
             THEN held.kind = "null" /\ held.refs = <<>>
             ELSE /\ held.kind = "record"
                  /\ held.refs = <<FirstMatching(last.preData, last.where)>>

\* a findFirst whose where several records match
C22_Witness ==
    /\ last.op = "findFirst"
    /\ Cardinality(Matching(last.preData, last.where)) >= 2
    /\ held.kind = "record"

ClientEdits == {"client.create", "client.update", "client.delete"}

\* C23: create, update and delete of the cache-only client change the cache alone.
\* The call leaves the sheet's rows as they were and issues no call that writes the
\* sheet, so that with no save() the sheet stays as it was at construction.
C23_EditsLeaveTheSheet ==
    /\ last.op \in ClientEdits => sheet = last.preSheet /\ last.calls = <<>>
    /\ \E c \in 1..Len(ClientSheets) :
          schema = ClientSheets[c].schema /\ sheet = ClientSheets[c].sheet

\* a create that returned, after which the cache holds more records than the sheet
\* has data rows
C23_Witness ==
    /\ last.op = "client.create"
    /\ last.err = NoError
    /\ data # last.preData
    /\ Len(data) > Len(sheet) - 1

\* C24: after a save() that returned, the sheet's data rows are the serialization of
\* the cache's records in cache order, no row of the sheet's earlier contents is left
\* below them, and a load() now would give a cache as long as the cache is.
C24_SaveRewritesTheSheet ==
    (last.op = "client.save" /\ last.err = NoError) =>
        /\ Len(sheet) >= Len(data) + 1
        /\ \A i \in 1..Len(data) : sheet[i + 1] = serializeRow(schema, headers, data[i])
        /\ \A r \in (Len(data) + 2)..Len(sheet) : \A k \in 1..Len(sheet[r]) : IsBlank(sheet[r][k])
        /\ Len(Client_load(schema, headers, sheet)) = Len(data)

\* C25: load() replaces the cache with the parse of the sheet's data rows.  The cache
\* it leaves is a function of the sheet alone, whatever create, update and delete
\* did since the last save().
C25_LoadTakesTheSheet ==
    last.op = "client.load" =>
        /\ Len(data) = getLastRow(sheet) - 1
        /\ \A i \in 1..Len(data) : data[i] = parseRow(schema, headers, sheet[i + 1])
        /\ sheet = last.preSheet

\* a load() that discarded what the calls before it had left in the cache
C25_Witness ==
    /\ last.op = "client.load"
    /\ last.preData # data
    /\ Len(last.preData) > 0

\* C26: a create of the cache-only client whose data carries the primary-key value of
\* a cached record fails with a duplicate-key error and leaves the cache as it was,
\* and no two cached records share a primary-key value.
C26_ClientCreateRejectsDuplicate ==
    /\ (/\ last.op = "client.create"
        /\ \E i \in 1..Len(last.preData) :
              Get(last.preData[i], primaryKey) = Get(last.data, primaryKey))
          => last.err.kind = "duplicate" /\ data = last.preData
    /\ \A i, j \in 1..Len(data) :
          i # j => Get(data[i], primaryKey) # Get(data[j], primaryKey)

\* C27: a TableModel call that raised an error of any kind, an error of the sheet
\* call included, leaves the cache as it was before the call.
C27_FailedCallLeavesCache ==
    last.err # NoError => data = last.preData

\* the errors raised before the cache is assigned, and those raised after it
EarlyErrors == {"duplicate", "notfound"}
LateErrors == {"typeerror", "storage"}

\* C27, amended: a call that fails with a duplicate-key or not-found error leaves
\* cache and sheet as they were and makes no sheet call.  A call that fails later,
\* in a serializer or in its sheet call, is not rolled back: create leaves the new
\* record at the end of the cache, update leaves the merged record in place of a
\* cached one, delete leaves the cache one record shorter, and deleteMany leaves it
\* shorter by one record for each deleteRow call it made.
C27_OnlyEarlyErrorsLeaveCache ==
    /\ last.err.kind \in EarlyErrors =>
          data = last.preData /\ sheet = last.preSheet /\ last.calls = <<>>
    /\ (last.err.kind \in LateErrors /\ last.op = "create") =>
          /\ Len(data) = Len(last.preData) + 1
          /\ SubSeq(data, 1, Len(last.preData)) = last.preData
          /\ \A f \in DOMAIN last.data : data[Len(data)][f] = last.data[f]
    /\ (last.err.kind \in LateErrors /\ last.op = "update") =>
          \E i, j \in 1..Len(last.preData) :
              data = [last.preData EXCEPT ![i] = Spread(last.preData[j], last.data)]
    /\ (last.err.kind \in LateErrors /\ last.op = "delete") =>
          \E i \in 1..Len(last.preData) : data = RemoveAt(last.preData, i)
    /\ (last.err.kind \in LateErrors /\ last.op = "deleteMany") =>
          Len(data) = Len(last.preData) - Len(last.calls)

\* a deleteMany whose second deleteRow call threw
C27_Witness ==
    /\ last.op = "deleteMany"
    /\ last.err = StorageError
    /\ Len(last.calls) = 2
    /\ Len(data) = Len(last.preData) - 2
    /\ Len(sheet) = Len(last.preSheet) - 1

\* C28: the record r of a row is given back by the round trip: the row of r exists
\* (no serializer throws) and its record equals r, for columns with and without a
\* parser and serializer and for every header layout.
C28_RowRecordRoundTrip ==
    /\ last.op = "recordToRow" => last.err = NoError
    /\ last.op = "rowToRecordAgain" => data[2] = data[1]

Declared == {models.tables[i] : i \in 1..Len(models.tables)}
RegistryAccesses == {"client.get", "proxy.get", "models.get"}

\* C29: an access by a name the schema does not declare raises an error or gives
\* undefined, and never a TableModel.  For each declared name one TableModel was
\* constructed with the client, none is constructed later, and every access by that
\* name gives that instance.
C29_UndeclaredIsNoTable ==
    /\ Cardinality({models.byName[name] : name \in DOMAIN models.byName}) = Len(models.tables)
    /\ models.built = Len(models.tables)
    /\ last.op \in RegistryAccesses =>
          IF last.data["tableName"] \in Declared
          THEN last.ret = models.byName[last.data["tableName"]] /\ last.ret.t = "TableModel"
          ELSE last.ret.t \in {"throw", "undefined"}

\* the cached records that carry this id
WithId(recs, id) == {i \in 1..Len(recs) : Get(recs[i], "id") = id}

\* C30: on a sheet whose rows have pairwise distinct ids, after any createAndSave,
\* updateAndSave and deleteAndSave calls the cached records have pairwise distinct
\* ids and sheet row i+2 holds the serialization of data[i]; createAndSave with an
\* id a cached record carries throws, updateAndSave and deleteAndSave with an id no
\* cached record carries throw, and these leave cache and sheet as they were.
C30_MapperKeepsIdsAndRows ==
    /\ \A i, j \in 1..Len(data) : i # j => Get(data[i], "id") # Get(data[j], "id")
    /\ \A i \in 1..Len(data) :
          /\ i + 1 <= Len(sheet)
          /\ sheet[i + 1] = Mapper_mapObjectToRow(schema, headers, data[i])
    /\ (last.op = "createAndSave" /\ WithId(last.preData, last.data["id"]) # {}) =>
          last.err.kind = "duplicate" /\ data = last.preData /\ sheet = last.preSheet
    /\ (last.op \in {"updateAndSave", "deleteAndSave"}
          /\ WithId(last.preData, last.data["id"]) = {}) =>
          last.err.kind = "notfound" /\ data = last.preData /\ sheet = last.preSheet

\* ----------------------------------------------------------------- C31
\* the data rows of the sheet a call started from that the first n deleteRow calls
\* of the last call have left, by their position (from 1) among those data rows
RECURSIVE RowsLeft(_)
RowsLeft(n) ==
    IF n = 0 THEN [i \in 1..(Len(last.preSheet) - 1) |-> i]
    ELSE RemoveAt(RowsLeft(n - 1), last.calls[n].row - 1)

\* C31: the deleteRow calls of a deleteMany name physical rows in non-increasing
\* order, and each of them names a row that, when the call is made, is there and
\* holds a record the where matched; no row of a record that did not match is
\* removed.
C31_DeleteManyDeletesMatchesDescending ==
    (last.op = "deleteMany")
    => /\ \A n \in 1..Len(last.calls) : last.calls[n].fn = "deleteRow"
       /\ \A n \in 2..Len(last.calls) : last.calls[n].row <= last.calls[n - 1].row
       /\ \A n \in 1..Len(last.calls) :
             LET left == RowsLeft(n - 1)
                 at == last.calls[n].row - 1
             IN  /\ at \in 1..Len(left)
                 /\ left[at] \in Matching(last.preData, last.where)

\* ----------------------------------------------------------------- C32
\* the k highest of the positions in m
Highest(m, k) == {p \in m : Cardinality({q \in m : q > p}) < k}

\* what C32 says of a call in which a sheet call threw: from the state before the
\* call to the state after it
FailedWriteLeaves ==
    LET w == last'.where
        k == Len(last'.calls)
        m == Matching(data, w)
    IN  CASE last'.op = "create" ->
               /\ data' = create(last'.data).data
               /\ sheet' = sheet
               /\ k = 1
          [] last'.op = "update" ->
               /\ data' = update(w.cond, last'.data).data
               /\ sheet' = sheet
               /\ k = 1
          [] last'.op = "delete" ->
               /\ data' = delete(w.cond).data
               /\ sheet' = sheet
               /\ k = 1
          [] last'.op = "deleteMany" ->
               /\ data' = Kept(data, (1..Len(data)) \ Highest(m, k), 1)
               /\ sheet' = Kept(sheet, (1..Len(sheet)) \ {p + 1 : p \in Highest(m, k - 1)}, 1)
          [] OTHER -> FALSE

\* C32: a create, update or delete whose sheet call throws leaves in the cache what
\* the call leaves when it returns, and the sheet as it was, having made the one
\* sheet call; a deleteMany whose k-th deleteRow throws leaves the cache without
\* the k highest-positioned matches and the sheet without the rows of the k-1
\* highest-positioned matches, all else kept.  (SpecFaulty)
C32_NoRollbackNoRetry == [][last'.err = StorageError => FailedWriteLeaves]_vars

\* ----------------------------------------------------------------- C33
\* one field of a where as C33 reads it: a null or absent condition asks for a
\* null or absent value
MatchesNullish(item, key, condition) ==
    IF condition.kind = "lit" /\ IsNullish(condition.lit)
    THEN IsNullish(Get(item, key))
    ELSE matchesField(item, key, condition)

\* C33: filter keeps, of the records, those that for each field of the where with
\* a null or absent condition have a null or absent value (null for absent and
\* absent for null included, never false, 0 or ''), and match the other fields.
\* (SpecQE)
C33_NullishConditionMatchesNullish ==
    (qe.pc = "filtered" /\ qe.where.present)
    => qe.result = SelectSeq(qe.data, LAMBDA item :
                      \A key \in DOMAIN qe.where.cond :
                          MatchesNullish(item, key, qe.where.cond[key]))

\* ----------------------------------------------------------------- C34
\* v is one of the elements of the list l
Member(v, l) == \E i \in 1..Len(l) : StrictEq(l[i], v)

\* the conditions C34 is about: a literal that is no object, or a predicate whose
\* one key is equals, not, in or notIn, with a value for equals and not and a list
\* for in and notIn
IsSingleOp(c, o) == c.kind = "obj" /\ DOMAIN c.ops = {o}
IsPlain(c) ==
    \/ c.kind = "lit" /\ c.lit.t # "date"
    \/ IsSingleOp(c, "equals") /\ ~c.ops["equals"].isArr
    \/ IsSingleOp(c, "not") /\ ~c.ops["not"].isArr
    \/ IsSingleOp(c, "in") /\ c.ops["in"].isArr
    \/ IsSingleOp(c, "notIn") /\ c.ops["notIn"].isArr

\* what C34 says such a condition asks of a value
PlainMatches(v, c) ==
    IF c.kind = "lit" THEN StrictEq(v, c.lit)
    ELSE IF IsSingleOp(c, "equals") THEN StrictEq(v, c.ops["equals"].v)
    ELSE IF IsSingleOp(c, "not") THEN ~StrictEq(v, c.ops["not"].v)
    ELSE IF IsSingleOp(c, "in") THEN Member(v, c.ops["in"].arr)
    ELSE ~Member(v, c.ops["notIn"].arr)

\* C34: with a where of one field whose condition is a non-object literal or a
\* single equals, not, in or notIn, filter keeps exactly the records whose value
\* is identical to the operand (literal, equals), differs from it (not), is a
\* member of the list (in), is no member of it (notIn); and over the same list in
\* and notIn give opposite answers for every value.  (SpecQE)
C34_SingleOperatorSemantics ==
    (qe.pc = "filtered" /\ qe.where.present)
    => \A key \in DOMAIN qe.where.cond :
          LET c == qe.where.cond[key]
          IN  IsPlain(c)
              => /\ (DOMAIN qe.where.cond = {key})
                    => qe.result = SelectSeq(qe.data, LAMBDA item :
                                       PlainMatches(Get(item, key), c))
                 /\ \A i \in 1..Len(qe.data) :
                       /\ matchesField(qe.data[i], key, c)
                          = PlainMatches(Get(qe.data[i], key), c)
                       /\ \A o \in DOMAIN c.ops :
                             c.ops[o].isArr
                             => evaluateCondition(Get(qe.data[i], key), "in" :> c.ops[o])
                                = ~evaluateCondition(Get(qe.data[i], key), "notIn" :> c.ops[o])

\* C34's case: an `in` over a list of two kept one record of two and dropped the
\* other, which a later element of the list selects
C34_Witness ==
    /\ qe.pc = "filtered"
    /\ qe.where.present
    /\ \E key \in DOMAIN qe.where.cond :
          /\ IsSingleOp(qe.where.cond[key], "in")
          /\ Len(qe.where.cond[key].ops["in"].arr) = 2
          /\ \E i \in 1..Len(qe.data) :
                StrictEq(Get(qe.data[i], key), qe.where.cond[key].ops["in"].arr[2])
    /\ Len(qe.data) = 2
    /\ Len(qe.result) = 1

\* ----------------------------------------------------------------- C35
\* the schema's labels, and the position (from 1) of a label in the header, 0 when
\* the header lacks it
Labels == {schema[i].column : i \in 1..Len(schema)}
PositionOf(label) == FirstIndex({k \in 1..Len(headers) : headers[k] = label}) + 1

\* C35: a row made of a record has one value for each label of the header, in the
\* header's order, and '' wherever the label is none of the schema's; a record made
\* of a row has the schema's fields whose label the header holds and no other, and
\* a field whose raw cell is null or absent holds that cell unparsed.  (SpecRows)
C35_MappingFollowsHeader ==
    /\ (last.op = "recordToRow" /\ last.err = NoError)
       => /\ Len(sheet[3]) = Len(headers)
          /\ \A k \in 1..Len(headers) :
                IF headers[k] \in Labels
                THEN \E i \in 1..Len(schema) :
                        /\ schema[i].column = headers[k]
                        /\ sheet[3][k] \in {Get(data[1], schema[i].field),
                                            dateSerializer(Get(data[1], schema[i].field))}
                ELSE sheet[3][k] = Str(<<>>)
    /\ (last.op = "rowToRecord")
       => /\ DOMAIN data[1] = {schema[i].field : i \in {j \in 1..Len(schema) :
                                                          PositionOf(schema[j].column) # 0}}
          /\ \A i \in 1..Len(schema) :
                LET at == PositionOf(schema[i].column)
                IN  (at # 0 /\ IsNullish(sheet[2][at]))
                    => data[1][schema[i].field] = sheet[2][at]

\* ----------------------------------------------------------------- C36
Reads == {"findMany", "findUnique", "findFirst", "count"}

\* C36: when findMany, findUnique, findFirst or count has returned, and until the
\* caller changes what it was handed, the cache holds the records it held before
\* the call in the same order and the sheet the same rows: a result sorted or cut
\* by take and skip leaves the cache unsorted and whole.  (SpecRead)
C36_ReadsLeaveState ==
    (last.op \in Reads /\ ~held.touched)
    => /\ data = last.preData
       /\ sheet = last.preSheet

\* C36's case: findMany with an orderBy and a take, and no where, returned one
\* record of a cache of two or more, and not the first of the cache
C36_Witness ==
    /\ last.op = "findMany"
    /\ ~held.touched
    /\ ~last.find.where.present
    /\ last.find.orderBy.present
    /\ Truthy(last.find.take)
    /\ Len(data) >= 2
    /\ Len(held.recs) = 1
    /\ held.refs[1] # 1

\* ----------------------------------------------------------------- C37
\* the cache of the instance that did not make the last call, now and before the call
OtherCache == IF peer.ran = "A" THEN peer.data ELSE data
OtherCacheBefore == IF peer.ran = "A" THEN peer.was ELSE last.preData

\* C37: of two clients on one sheet whose calls come one after another in any
\* order: after a save() the sheet's data rows are the serialization of the saving
\* instance's cache, record by record, with nothing left below them of what the
\* other instance had written, and the sheet stays so until the next save(); no call
\* of one instance, its save() included, changes the cache of the other; and after
\* its load() an instance's cache is the parse of the sheet's data rows.
\* (SpecTwoClients)
C37_LastSaveWins ==
    /\ last.op = "client.save"
       => LET cache == CacheOf(peer.ran)
          IN  /\ last.err = NoError
              /\ Len(sheet) >= Len(cache) + 1
              /\ \A i \in 1..Len(cache) : sheet[i + 1] = serializeRow(schema, headers, cache[i])
              /\ \A r \in (Len(cache) + 2)..Len(sheet) :
                    \A k \in 1..Len(sheet[r]) : IsBlank(sheet[r][k])
    /\ last.op \notin {"client.save", "new"} => sheet = last.preSheet
    /\ peer.ran \in Instances => OtherCache = OtherCacheBefore
    /\ last.op = "client.load"
       => LET rows == Tail(getValues(sheet))
          IN  CacheOf(peer.ran) = [i \in 1..Len(rows) |-> parseRow(schema, headers, rows[i])]

====
